---------------------------- MODULE Spec2Model ----------------------------
(***************************************************************************)
(* A model of ts-result: the synchronous Result (the simple variant and    *)
(* the checked variant that carries ErrorHolder), Result.run, and the two  *)
(* AsyncResult variants.  pc tells which part of the library a behaviour  *)
(* exercises: "sync" the combinators of a Result, "loop" / "returned" /    *)
(* "raised" a call of Result.run, "async" the AsyncResult API.             *)
(*                                                                         *)
(* JavaScript values are records with a field k naming their kind.  A call *)
(* that may throw is a completion record: t is "return" or "throw", v the  *)
(* value returned or thrown, calls the log of the user callbacks invoked   *)
(* (in order, with their arguments), eff the side effects of an internal   *)
(* closure on the enclosing function's locals.                             *)
(***************************************************************************)
EXTENDS Integers, Sequences, FiniteSets, TLC

VARIABLES
    variant,        \* "simple" | "checked": which Result.ts / AsyncResult.ts is loaded
    cur,            \* sync pipeline: the Result the next combinator is called on
    last,           \* sync pipeline: the last combinator call and its completion
    steps,          \* number of combinator calls made so far
    prog,           \* Result.run: the generator function passed to run
    gen,            \* Result.run: the generator object fn() returned
    done,           \* Result.run: the local variable done
    returnResult,   \* Result.run: the local variable returnResult
    pc,             \* "sync" | "static" | "held" | "loop" | "returned" | "raised" | "async"
    raised,         \* Result.run: the exception run raised to its caller
    heap            \* AsyncResult: the promises made so far, in creation order

vars == <<variant, cur, last, steps, prog, gen, done, returnResult, pc, raised, heap>>
syncVars == <<cur, last, steps>>
runVars == <<prog, gen, done, returnResult, pc, raised>>

------------------------------------------------------------------------------
(* Bounds *)

MaxSteps == 2
MaxStmts == 3
MaxOps == 1
MaxLen == 3
MaxFns == 3

------------------------------------------------------------------------------
(* JavaScript values *)

Num(n) == [k |-> "num", n |-> n]
Undefined == [k |-> "undefined"]
\* new cls(...): an Error object; id tells two objects of a class apart
NewError(cls, id) == [k |-> "error", cls |-> cls, id |-> id]

\* ErrorHolder.ts
makeCheckedErrorHolder(error) ==
    [k |-> "holder", type |-> "CHECKED_ERROR", error |-> error]
makeUncheckedErrorHolder(error) ==
    [k |-> "holder", type |-> "UNCHECKED_ERROR", error |-> error]

\* class _Result { constructor(public readonly data) }
_Result(data) == [k |-> "result", data |-> data]

isResult(it) == it.k = "result"

Ok(arg) == _Result([isOk |-> TRUE, value |-> arg])

\* Err of the simple variant: the error itself is the payload
Simple_Err(error) == _Result([isOk |-> FALSE, value |-> error])

\* Err and ErrUnchecked of the checked variant: the payload is an ErrorHolder
Checked_Err(error) ==
    _Result([isOk |-> FALSE, value |-> makeCheckedErrorHolder(error)])
ErrUnchecked(error) ==
    _Result([isOk |-> FALSE, value |-> makeUncheckedErrorHolder(error)])

\* toResult of the simple variant copies a Result ({ ...it.data })
Simple_toResult(it) ==
    IF isResult(it)
      THEN _Result([isOk |-> it.data.isOk, value |-> it.data.value])
      ELSE Ok(it)

\* a toResult that wraps whatever it is given
Checked_toResult_nesting(it) == Ok(it)

\* toResult of the checked variant returns a Result as it is
Checked_toResult(it) == IF isResult(it) THEN it ELSE Ok(it)

Array(items) == [k |-> "array", items |-> items]

AggregateError(errors) ==
    [k |-> "error", cls |-> "AggregateError", id |-> 0, errors |-> errors]

\* a promise of the caller's, by the way it settles
Promise(st, v) == [k |-> "promise", st |-> st, v |-> v]

\* error instanceof type; CustomError extends Error
InstanceOf(v, type) == v.k = "error" /\ (v.cls = type \/ type = "Error")

------------------------------------------------------------------------------
(* Completions and callbacks *)

NoEff == [none |-> TRUE]
NoCb == [kind |-> "undefined"]

Return(v, calls) == [t |-> "return", v |-> v, calls |-> calls, eff |-> NoEff]
Throw(v, calls) == [t |-> "throw", v |-> v, calls |-> calls, eff |-> NoEff]

\* the successor function the "inc" callbacks compute on numbers
IncV(x) == IF x.k = "num" THEN Num((x.n + 1) % 3) ELSE x

\* A user callback called with the argument list args.  Its kinds:
\*   const v  : returns v (a plain value or a Result)
\*   inc      : returns x + 1 as a plain value (map)
\*   incOk    : returns Ok(x + 1) (chain)
\*   add      : returns x + y, NaN when x or y is no number
\*   throw v  : throws v
CallUser(role, cb, args) ==
    LET log == <<[role |-> role, args |-> args]>>
        x == IF Len(args) > 0 THEN args[1] ELSE Undefined
    IN CASE cb.kind = "const" -> Return(cb.v, log)
         [] cb.kind = "inc" -> Return(IncV(x), log)
         [] cb.kind = "incOk" -> Return(Ok(IncV(x)), log)
         [] cb.kind = "add" ->
              Return(IF Len(args) = 2 /\ args[1].k = "num" /\ args[2].k = "num"
                       THEN Num((args[1].n + args[2].n) % 3)
                       ELSE [k |-> "nan"],
                     log)
         [] cb.kind = "throw" -> Throw(cb.v, log)

------------------------------------------------------------------------------
(* Generators.  A generator function is a program: a list of statements,   *)
(* the whole of it inside no try statement, a try/catch or a try/finally.  *)
(* Its statements are  yield* r  (r a Result),  throw e,  return v  and    *)
(* return f(a, b, ...) with a, b, ... the values of its yield* expressions *)
(* so far; falling off the end returns undefined.  The catch block returns *)
(* catchVal; the finally block is a cleanup that completes normally.       *)
(* The generator object records what its body did: executed lists the      *)
(* statements begun, received the values its yield* expressions evaluated  *)
(* to, and the counters count the runs of the catch and finally blocks and *)
(* the calls of next() and return().                                       *)

NewGen ==
    [st |-> "start", at |-> 0, executed |-> <<>>, received |-> <<>>,
     catchRan |-> 0, finallyRan |-> 0, nexts |-> 0, returns |-> 0]

IterResult(value, isDone, g) ==
    [t |-> "return", value |-> value, done |-> isDone, gen |-> g]
IterThrow(e, g) == [t |-> "throw", value |-> e, done |-> TRUE, gen |-> g]

\* An abrupt completion (how: "return" | "throw") of the generator body with
\* value v: the try statement around the body handles it.
Complete(p, g, how, v) ==
    LET g1 == [g EXCEPT !.st = "done"]
    IN CASE p.wrap = "catch" /\ how = "throw" ->
              IterResult(p.catchVal, TRUE, [g1 EXCEPT !.catchRan = @ + 1])
         [] p.wrap = "finally" /\ how = "throw" ->
              IterThrow(v, [g1 EXCEPT !.finallyRan = @ + 1])
         [] p.wrap = "finally" /\ how = "return" ->
              IterResult(v, TRUE, [g1 EXCEPT !.finallyRan = @ + 1])
         [] OTHER ->
              IF how = "throw" THEN IterThrow(v, g1) ELSE IterResult(v, TRUE, g1)

\* Statement i of the body.  yield* r iterates r: _Result[Symbol.iterator]
\* yields the Result itself once, which suspends the generator.
Exec(p, g, i) ==
    IF i > Len(p.stmts)
      THEN Complete(p, [g EXCEPT !.at = i], "return", Undefined)
      ELSE LET s == p.stmts[i]
               g1 == [g EXCEPT !.at = i, !.executed = Append(@, i)]
           IN CASE s.s = "yield*" ->
                     IterResult(s.r, FALSE, [g1 EXCEPT !.st = "suspended"])
                [] s.s = "throw" -> Complete(p, g1, "throw", s.e)
                [] s.s = "return" -> Complete(p, g1, "return", s.v)
                [] s.s = "return f" ->
                     Complete(p, g1, CallUser("f", s.f, g1.received).t,
                              CallUser("f", s.f, g1.received).v)

\* a gen.next whose argument does not reach the suspended yield*
gen_next_dropping(p, g, v) ==
    LET g1 == [g EXCEPT !.nexts = @ + 1]
    IN CASE g.st = "done" -> IterResult(Undefined, TRUE, g1)
         [] g.st = "start" -> Exec(p, g1, 1)
         [] g.st = "suspended" ->
              Exec(p, [g1 EXCEPT !.received = Append(@, Undefined)], g.at + 1)

\* gen.next(v): a suspended yield* gets v from the Result's iterator, which
\* returns the value passed to its second next(), and the body goes on.
gen_next(p, g, v) ==
    LET g1 == [g EXCEPT !.nexts = @ + 1]
    IN CASE g.st = "done" -> IterResult(Undefined, TRUE, g1)
         [] g.st = "start" -> Exec(p, g1, 1)
         [] g.st = "suspended" ->
              Exec(p, [g1 EXCEPT !.received = Append(@, v)], g.at + 1)

\* gen.return(v): a suspended generator completes with a return at the
\* yield*, which runs the finally block and not the catch block; one that
\* has not started or is done only reports v.
gen_return(p, g, v) ==
    LET g1 == [g EXCEPT !.returns = @ + 1]
    IN IF g.st = "suspended"
         THEN Complete(p, g1, "return", v)
         ELSE IterResult(v, TRUE, [g1 EXCEPT !.st = "done"])

\* What a closure returns or throws, with its writes to run's locals.
Effect(t, v, g, d) ==
    [t |-> t, v |-> v, calls |-> <<>>, eff |-> [gen |-> g, done |-> d]]

\* a callback that bails out without gen.return
Checked_run_cb_next_noReturn(p, d, n) ==
    IF n.t = "throw"
      THEN Effect("return", ErrUnchecked(n.value), n.gen, TRUE)
      ELSE IF isResult(n.value) /\ ~n.value.data.isOk
             THEN Effect("return", n.value, n.gen, TRUE)
             ELSE Effect("return", n.value, n.gen, n.done)

\* a callback whose catch block reports the exception as a checked Err
Checked_run_cb_next_checkedErr(p, d, n) ==
    IF n.t = "throw"
      THEN Effect("return", Checked_Err(n.value), n.gen, TRUE)
      ELSE IF isResult(n.value) /\ ~n.value.data.isOk
             THEN Effect("return", n.value, gen_return(p, n.gen, n.value).gen, TRUE)
             ELSE Effect("return", n.value, n.gen, n.done)

\* The callback Result.run passes to then_, simple variant, from the result
\* n of gen.next(v):  if (isResult(value) && !value.data.isOk) { done = true;
\* gen.return?.(value) } else { done = done_ }  return value
Simple_run_cb_next(p, d, n) ==
    IF n.t = "throw"
      THEN Effect("throw", n.value, n.gen, d)
      ELSE IF isResult(n.value) /\ ~n.value.data.isOk
             THEN Effect("return", n.value, gen_return(p, n.gen, n.value).gen, TRUE)
             ELSE Effect("return", n.value, n.gen, n.done)

Simple_run_cb(p, g, d, v) == Simple_run_cb_next(p, d, gen_next(p, g, v))

\* a callback that takes done from the generator alone, also when the value
\* is an Err
Checked_run_cb_next_doneFromGen(p, d, n) ==
    IF n.t = "throw"
      THEN Effect("return", ErrUnchecked(n.value), n.gen, TRUE)
      ELSE IF isResult(n.value) /\ ~n.value.data.isOk
             THEN Effect("return", n.value, gen_return(p, n.gen, n.value).gen, n.done)
             ELSE Effect("return", n.value, n.gen, n.done)

\* The same callback in the checked variant: its body is in a try whose
\* catch sets done and returns ErrUnchecked(error).
Checked_run_cb_next(p, d, n) ==
    IF n.t = "throw"
      THEN Effect("return", ErrUnchecked(n.value), n.gen, TRUE)
      ELSE IF isResult(n.value) /\ ~n.value.data.isOk
             THEN Effect("return", n.value, gen_return(p, n.gen, n.value).gen, TRUE)
             ELSE Effect("return", n.value, n.gen, n.done)

Checked_run_cb(p, g, d, v) == Checked_run_cb_next(p, d, gen_next(p, g, v))

\* a finally_ whose callback replaces the result with any Result it returns
finally_fn_superseding(this, c) ==
    IF c.t = "throw" THEN c
    ELSE [c EXCEPT !.v = IF isResult(c.v) THEN c.v ELSE this]

\* a reference to the n-th array a call of thenChain made
ArrayRef(n) == [k |-> "arrayref", id |-> n]

\* a thenChain that hands its callbacks the history array itself
thenChain_cb_aliased(cb, arrays, arg) ==
    [CallUser("cb", cb, <<arg, ArrayRef(1)>>)
       EXCEPT !.eff = [arrays |-> [Append(arrays, arrays[1]) EXCEPT ![1] = Append(@, arg)]]]

\* the callback thenChain gives to then_: (arg) => { const currentHistory =
\* [...history]; history.push(arg); return cb(arg, currentHistory) }
\* arrays[1] is history, the arrays after it the copies made so far
thenChain_cb(cb, arrays, arg) ==
    [CallUser("cb", cb, <<arg, ArrayRef(Len(arrays) + 1)>>)
       EXCEPT !.eff = [arrays |-> [Append(arrays, arrays[1]) EXCEPT ![1] = Append(@, arg)]]]

\* const fn = () => { const newResult = cb();
\*   return isResult(newResult) && !newResult.data.isOk ? newResult : this; }
finally_fn(this, c) ==
    IF c.t = "throw" THEN c
    ELSE [c EXCEPT !.v = IF isResult(c.v) /\ ~c.v.data.isOk THEN c.v ELSE this]

\* the callback catchKnown gives to catch_:
\* (error) => error.type === "UNCHECKED_ERROR" ? this : cb(error.error)
sync_catchKnown_cb(this, cb, error) ==
    IF error.type = "UNCHECKED_ERROR"
      THEN Return(this, <<>>)
      ELSE CallUser("cb", cb, <<error.error>>)

\* a catchKnownInstanceOf that looks at the class of the error only
sync_catchKnownInstanceOf_cb_anyHolder(this, type, cb, error) ==
    IF InstanceOf(error.error, type)
      THEN CallUser("cb", cb, <<error.error>>)
      ELSE Return(this, <<>>)

\* the callback catchKnownInstanceOf gives to catch_: (error) =>
\* error.type === "CHECKED_ERROR" && error.error instanceof type
\*   ? cb(error.error) : this
sync_catchKnownInstanceOf_cb(this, type, cb, error) ==
    IF error.type = "CHECKED_ERROR" /\ InstanceOf(error.error, type)
      THEN CallUser("cb", cb, <<error.error>>)
      ELSE Return(this, <<>>)

\* Calling a function value: a user callback, or one of the closures the
\* combinators build around one.  The closures of a caller that nests then_
\* or takes apart the list of Result.all are function values too:
\*   nested : (a) => r2.then_((b) => f(a, b))
\*   bind   : (b) => f(a, b)
\*   spread : ([a, b]) => f(a, b)
RECURSIVE then_(_, _, _)
Invoke(role, f, args) ==
    CASE f.kind = "finally_fn" -> finally_fn(f.this, CallUser("cb", f.cb, <<>>))
      [] f.kind = "nested" ->
            then_(f.r2, [kind |-> "bind", f |-> f.f, a |-> args[1]], NoCb)
      [] f.kind = "bind" -> CallUser("f", f.f, <<f.a, args[1]>>)
      [] f.kind = "spread" -> CallUser("f", f.f, args[1].items)
      [] f.kind = "thenChain_cb" -> thenChain_cb(f.cb, f.arrays, args[1])
      [] f.kind = "sync_catchKnown_cb" -> sync_catchKnown_cb(f.this, f.cb, args[1])
      [] f.kind = "sync_catchKnownInstanceOf_cb" ->
            sync_catchKnownInstanceOf_cb(f.this, f.type, f.cb, args[1])
      [] f.kind = "Simple_run_cb" -> Simple_run_cb(f.prog, f.gen, f.done, args[1])
      [] f.kind = "Checked_run_cb" -> Checked_run_cb(f.prog, f.gen, f.done, args[1])
      [] OTHER -> CallUser(role, f, args)

------------------------------------------------------------------------------
(* Result, simple variant *)

\* a then_ that catches what the callback throws
Simple_wrap_catching(c) ==
    IF c.t = "throw"
      THEN [c EXCEPT !.t = "return", !.v = Simple_Err(c.v)]
      ELSE [c EXCEPT !.v = Simple_toResult(c.v)]

\* toResult(...) around what the chosen callback returned; a throw passes
Simple_wrap(c) ==
    IF c.t = "throw" THEN c ELSE [c EXCEPT !.v = Simple_toResult(c.v)]

Simple_then_(self, okCb, errCb) ==
    Simple_wrap(IF self.data.isOk
                  THEN Invoke("okCb", okCb, <<self.data.value>>)
                  ELSE IF errCb # NoCb
                         THEN Invoke("errCb", errCb, <<self.data.value>>)
                         ELSE Return(self, <<>>))

Simple_catch_(self, cb) ==
    Simple_wrap(IF self.data.isOk
                  THEN Return(self, <<>>)
                  ELSE Invoke("cb", cb, <<self.data.value>>))

Simple_finally_(self, cb) ==
    Simple_then_(self, [kind |-> "finally_fn", cb |-> cb, this |-> self],
                 [kind |-> "finally_fn", cb |-> cb, this |-> self])

------------------------------------------------------------------------------
(* Result, checked variant *)

\* a then_ without the try/catch
Checked_wrap_rethrow(c) ==
    IF c.t = "throw" THEN c ELSE [c EXCEPT !.v = Checked_toResult(c.v)]

\* try { return toResult(cb(...)) } catch (error) { return ErrUnchecked(error) }
Checked_wrap(c) ==
    IF c.t = "throw"
      THEN [c EXCEPT !.t = "return", !.v = ErrUnchecked(c.v)]
      ELSE [c EXCEPT !.v = Checked_toResult(c.v)]

Checked_then_(self, okCb, errCb) ==
    IF self.data.isOk
      THEN Checked_wrap(Invoke("okCb", okCb, <<self.data.value>>))
      ELSE IF errCb # NoCb
             THEN Checked_wrap(Invoke("errCb", errCb, <<self.data.value>>))
             ELSE Return(self, <<>>)

\* a catch_ that calls cb whatever the receiver is
Checked_catch_always(self, cb) ==
    Checked_wrap(Invoke("cb", cb, <<self.data.value>>))

Checked_catch_(self, cb) ==
    IF self.data.isOk
      THEN Return(self, <<>>)
      ELSE Checked_wrap(Invoke("cb", cb, <<self.data.value>>))

Checked_catchKnown(self, cb) ==
    Checked_catch_(self, [kind |-> "sync_catchKnown_cb", cb |-> cb, this |-> self])

Checked_catchKnownInstanceOf(self, type, cb) ==
    Checked_catch_(self, [kind |-> "sync_catchKnownInstanceOf_cb", type |-> type,
                          cb |-> cb, this |-> self])

Checked_finally_(self, cb) ==
    Checked_then_(self, [kind |-> "finally_fn", cb |-> cb, this |-> self],
                  [kind |-> "finally_fn", cb |-> cb, this |-> self])

------------------------------------------------------------------------------
(* The method of the loaded variant *)

then_(self, okCb, errCb) ==
    IF variant = "checked" THEN Checked_then_(self, okCb, errCb)
    ELSE Simple_then_(self, okCb, errCb)

catch_(self, cb) ==
    IF variant = "checked" THEN Checked_catch_(self, cb)
    ELSE Simple_catch_(self, cb)

finally_(self, cb) ==
    IF variant = "checked" THEN Checked_finally_(self, cb)
    ELSE Simple_finally_(self, cb)

Err(error) ==
    IF variant = "checked" THEN Checked_Err(error) ELSE Simple_Err(error)

------------------------------------------------------------------------------
(* Result.all, Result.any and Result.compose, the same code in both        *)
(* variants                                                                *)

\* the for loop of Result.all from member i on, okValues the values pushed
RECURSIVE all_loop(_, _, _)
all_loop(results, i, okValues) ==
    IF i > Len(results)
      THEN Ok(Array(okValues))
      ELSE IF results[i].data.isOk
             THEN all_loop(results, i + 1, Append(okValues, results[i].data.value))
             ELSE results[i]

\* an all that returns the last Err of the list
Result_all_lastErr(results) ==
    IF \A i \in 1..Len(results) : results[i].data.isOk
      THEN all_loop(results, 1, <<>>)
      ELSE results[CHOOSE i \in 1..Len(results) :
                     /\ ~results[i].data.isOk
                     /\ \A j \in (i + 1)..Len(results) : results[j].data.isOk]

Result_all(results) == all_loop(results, 1, <<>>)

\* the for loop of Result.any from member i on, errValues the failures pushed
RECURSIVE any_loop(_, _, _)
any_loop(results, i, errValues) ==
    IF i > Len(results)
      THEN Err(AggregateError(errValues))
      ELSE IF results[i].data.isOk
             THEN results[i]
             ELSE any_loop(results, i + 1, Append(errValues, results[i].data.value))

\* an any that leaves the failures after the first out of the AggregateError
Result_any_firstOnly(results) ==
    IF \E j \in 1..Len(results) : results[j].data.isOk
      THEN results[CHOOSE j \in 1..Len(results) :
                     /\ results[j].data.isOk
                     /\ \A k \in 1..(j - 1) : ~results[k].data.isOk]
      ELSE Err(AggregateError(IF results = <<>> THEN <<>>
                              ELSE <<results[1].data.value>>))

Result_any(results) == any_loop(results, 1, <<>>)

\* the completion d of result.then_(fn), after the calls made before it
Then(calls, d) == [d EXCEPT !.calls = calls \o @]

\* for (const fn of restFns) result = result.then_(fn), from fns[i] on; c is
\* the completion of the statements before, and a throw leaves the loop
RECURSIVE compose_loop(_, _, _)
compose_loop(fns, i, c) ==
    IF c.t = "throw" \/ i > Len(fns)
      THEN c
      ELSE compose_loop(fns, i + 1, Then(c.calls, then_(c.v, fns[i], NoCb)))

\* a compose that gives its first function to then_ as well
compose_threaded(fns, v) == compose_loop(fns, 1, Return(Ok(v), <<>>))

\* the function compose(...fns) returns, called with v
compose(fns, v) == compose_loop(fns, 2, Invoke("fn", fns[1], <<v>>))

\* a wrap without the try statement
Result_wrap_uncaught(fn, args) ==
    LET c == CallUser("fn", fn, args)
    IN IF c.t = "throw" THEN c ELSE [c EXCEPT !.v = Ok(@)]

\* the function Result.wrap(fn) returns (checked variant), called with args:
\* try { return Ok(fn(...args)) } catch (e) { return ErrUnchecked(e) }
Result_wrap(fn, args) ==
    LET c == CallUser("fn", fn, args)
    IN IF c.t = "throw"
         THEN [c EXCEPT !.t = "return", !.v = ErrUnchecked(@)]
         ELSE [c EXCEPT !.v = Ok(@)]

\* thenChain of the simple variant: cbs.reduce((result, cb) =>
\* result.then_((arg) => ...), this); c is the completion so far, with the
\* arrays made so far as its effect
RECURSIVE thenChain_reduce(_, _, _)
thenChain_reduce(cbs, i, c) ==
    IF c.t = "throw" \/ i > Len(cbs)
      THEN c
      ELSE thenChain_reduce(cbs, i + 1,
             [Simple_then_(c.v, [kind |-> "thenChain_cb", cb |-> cbs[i],
                                 arrays |-> c.eff.arrays], NoCb)
                EXCEPT !.calls = c.calls \o @,
                       !.eff = IF "arrays" \in DOMAIN @ THEN @ ELSE c.eff])

thenChain(self, cbs) ==
    thenChain_reduce(cbs, 1, [Return(self, <<>>) EXCEPT !.eff = [arrays |-> <<(<<>>)>>]])

------------------------------------------------------------------------------
(* Inputs of the synchronous pipeline *)

Variants == {"simple", "checked"}

E1 == NewError("Error", 1)
E2 == NewError("CustomError", 2)

\* the classes given to catchKnownInstanceOf
ErrorClasses == {"Error", "CustomError"}

\* what a callback may throw: an Error, a non-Error value, a Result
Thrown == {E2, Num(2), Ok(Num(0))}

\* the Results a caller can construct
Results ==
    {Ok(Num(0)), Ok(Num(1)), Err(E1)}
      \cup (IF variant = "checked"
              THEN {Checked_Err(E2), ErrUnchecked(E1), ErrUnchecked(E2)} ELSE {})

Callbacks ==
    {[kind |-> "inc"], [kind |-> "incOk"]}
      \cup {[kind |-> "const", v |-> v] : v \in {Num(2), Undefined} \cup Results}
      \cup {[kind |-> "throw", v |-> v] : v \in Thrown}

\* finally_'s callback takes no argument; it may return a promise
FinallyCallbacks ==
    {cb \in Callbacks : cb.kind \in {"const", "throw"}}
      \cup {[kind |-> "const", v |-> Promise("fulfilled", Err(E1))]}

NoCall == [op |-> "none"]

\* the value of a variable of a part of the library that is not in use
Idle == [idle |-> TRUE]

------------------------------------------------------------------------------
(* The synchronous pipeline: a caller holds a Result and calls combinators *)
(* on it; a call that returns gives the Result the next call is made on, a *)
(* call that throws leaves the caller with the Result it had.              *)

InitSync ==
    /\ variant \in Variants
    /\ cur \in Results
    /\ last = NoCall
    /\ steps = 0
    /\ prog = Idle /\ gen = Idle /\ done = FALSE /\ returnResult = Idle
    /\ pc = "sync" /\ raised = Undefined
    /\ heap = <<>>

Record(op, okCb, errCb, cb, c) ==
    /\ last' = [op |-> op, recv |-> cur, okCb |-> okCb, errCb |-> errCb,
                cb |-> cb, out |-> c]
    /\ cur' = IF c.t = "return" THEN c.v ELSE cur
    /\ steps' = steps + 1
    /\ UNCHANGED <<variant, runVars, heap>>

Do_then_ ==
    /\ pc = "sync"
    /\ steps < MaxSteps
    /\ \E okCb \in Callbacks, errCb \in Callbacks \cup {NoCb} :
         Record("then_", okCb, errCb, NoCb, then_(cur, okCb, errCb))

Do_catch_ ==
    /\ pc = "sync"
    /\ steps < MaxSteps
    /\ \E cb \in Callbacks : Record("catch_", NoCb, NoCb, cb, catch_(cur, cb))

Do_finally_ ==
    /\ pc = "sync"
    /\ steps < MaxSteps
    /\ \E cb \in FinallyCallbacks : Record("finally_", NoCb, NoCb, cb, finally_(cur, cb))

\* a call that also takes a class
RecordTyped(op, type, cb, c) ==
    /\ last' = [op |-> op, recv |-> cur, okCb |-> NoCb, errCb |-> NoCb,
                cb |-> cb, type |-> type, out |-> c]
    /\ cur' = IF c.t = "return" THEN c.v ELSE cur
    /\ steps' = steps + 1
    /\ UNCHANGED <<variant, runVars, heap>>

Do_catchKnown ==
    /\ pc = "sync" /\ variant = "checked"
    /\ steps < MaxSteps
    /\ \E cb \in Callbacks :
         Record("catchKnown", NoCb, NoCb, cb, Checked_catchKnown(cur, cb))

Do_catchKnownInstanceOf ==
    /\ pc = "sync" /\ variant = "checked"
    /\ steps < MaxSteps
    /\ \E type \in ErrorClasses, cb \in Callbacks :
         RecordTyped("catchKnownInstanceOf", type, cb,
                     Checked_catchKnownInstanceOf(cur, type, cb))

NextSync ==
    \/ Do_then_ \/ Do_catch_ \/ Do_finally_
    \/ Do_catchKnown \/ Do_catchKnownInstanceOf

SpecSync == InitSync /\ [][NextSync]_vars

------------------------------------------------------------------------------
(* The static functions of Result, and thenChain: a caller gives them      *)
(* Results, or functions and a value, of its own.  They keep nothing       *)
(* between calls, so a behaviour is one call on freshly chosen arguments.  *)

\* the lists of Results given to Result.all and Result.any
ResultLists == UNION {[1..n -> Results] : n \in 0..MaxLen}

\* the functions given to compose, which return Results or throw
ComposeFns ==
    {[kind |-> "incOk"], [kind |-> "const", v |-> Err(E1)],
     [kind |-> "throw", v |-> E2]}

ComposeLists == UNION {[1..n -> ComposeFns] : n \in 1..MaxFns}

InitStatic ==
    /\ variant \in Variants
    /\ cur = Idle /\ last = NoCall /\ steps = 0
    /\ prog = Idle /\ gen = Idle /\ done = FALSE /\ returnResult = Idle
    /\ pc = "static" /\ raised = Undefined
    /\ heap = <<>>

\* a static call: what it was given, its completion, and the Result the
\* caller has afterwards
RecordStatic(call, c) ==
    /\ last' = [call EXCEPT !.out = c]
    /\ cur' = IF c.t = "return" THEN c.v ELSE cur
    /\ steps' = steps + 1
    /\ UNCHANGED <<variant, runVars, heap>>

Do_all ==
    /\ pc = "static" /\ steps = 0
    /\ \E rs \in ResultLists :
         RecordStatic([op |-> "all", results |-> rs, out |-> Idle],
                      Return(Result_all(rs), <<>>))

Do_any ==
    /\ pc = "static" /\ steps = 0
    /\ \E rs \in ResultLists :
         RecordStatic([op |-> "any", results |-> rs, out |-> Idle],
                      Return(Result_any(rs), <<>>))

Do_compose ==
    /\ pc = "static" /\ steps = 0
    /\ \E fns \in ComposeLists, v \in {Num(0), Num(1)} :
         RecordStatic([op |-> "compose", fns |-> fns, v |-> v, out |-> Idle],
                      compose(fns, v))

\* a call of thenChain, which only the simple variant has, with callbacks
\* that return a plain value, an Ok or an Err, or throw
Do_thenChain ==
    /\ pc = "static" /\ steps = 0 /\ variant = "simple"
    /\ \E self \in Results,
          cbs \in UNION {[1..n -> ComposeFns \cup {[kind |-> "inc"]}] : n \in 0..MaxFns} :
         RecordStatic([op |-> "thenChain", recv |-> self, cbs |-> cbs, out |-> Idle],
                      thenChain(self, cbs))

\* a call of the function Result.wrap(fn) returned
Do_wrap ==
    /\ pc = "static" /\ steps = 0 /\ variant = "checked"
    /\ \E fn \in Callbacks, args \in {<<>>, <<Num(0)>>, <<Num(1)>>} :
         RecordStatic([op |-> "wrap", fn |-> fn, args |-> args, out |-> Idle],
                      Result_wrap(fn, args))

NextStatic == Do_all \/ Do_any \/ Do_compose \/ Do_thenChain \/ Do_wrap

SpecStatic == InitStatic /\ [][NextStatic]_vars

------------------------------------------------------------------------------
(* Result.run: const gen = fn(); let done = false;                         *)
(* let returnResult = Ok(undefined); while (!done) { returnResult =        *)
(* returnResult.then_(cb) } return returnResult.                           *)

Yieldable ==
    {Ok(Num(1)), Ok(Num(2)), Err(E1)}
      \cup (IF variant = "checked" THEN {ErrUnchecked(E2)} ELSE {})

Stmts ==
    {[s |-> "yield*", r |-> r] : r \in Yieldable}
      \cup {[s |-> "throw", e |-> E2]}
      \cup {[s |-> "return", v |-> v] : v \in {Num(0), Err(E2)}}
      \cup {[s |-> "return f", f |-> [kind |-> "add"]]}

SeqsUpTo(S, n) == UNION {[1..m -> S] : m \in 0..n}

Programs ==
    {[wrap |-> w, stmts |-> ss, catchVal |-> cv] :
        w \in {"none", "catch", "finally"}, ss \in SeqsUpTo(Stmts, MaxStmts),
        cv \in {Undefined, Num(0)}}

InitRun ==
    /\ variant \in Variants
    /\ prog \in Programs
    /\ gen = NewGen
    /\ done = FALSE
    /\ returnResult = Ok(Undefined)
    /\ pc = "loop"
    /\ raised = Undefined
    /\ cur = Idle /\ last = NoCall /\ steps = 0
    /\ heap = <<>>

\* the assignments of one iteration, from the completion c of then_
RunAssign(c) ==
    /\ IF c.eff = NoEff
         THEN UNCHANGED <<gen, done>>
         ELSE gen' = c.eff.gen /\ done' = c.eff.done
    /\ IF c.t = "throw"
         THEN pc' = "raised" /\ raised' = c.v /\ UNCHANGED returnResult
         ELSE returnResult' = c.v /\ UNCHANGED <<pc, raised>>

\* one iteration of the while loop
RunLoop ==
    /\ pc = "loop" /\ ~done
    /\ RunAssign(then_(returnResult,
                       [kind |-> IF variant = "checked" THEN "Checked_run_cb"
                                 ELSE "Simple_run_cb",
                        prog |-> prog, gen |-> gen, done |-> done],
                       NoCb))
    /\ UNCHANGED <<variant, prog, syncVars, heap>>

\* the loop ends and run returns returnResult
RunReturn ==
    /\ pc = "loop" /\ done
    /\ pc' = "returned"
    /\ UNCHANGED <<variant, prog, gen, done, returnResult, raised, syncVars, heap>>

NextRun == RunLoop \/ RunReturn

SpecRun == InitRun /\ [][NextRun]_vars

------------------------------------------------------------------------------
(* Promises.  heap[i] is a promise the library made: the resultPromise of  *)
(* an AsyncResult (ar) or the promise valueOrFallback returned.  It keeps  *)
(* the call that made it, how it settled (st, v), the user callbacks that  *)
(* ran for it (calls, and cb: what the callback did) and, for all, any and *)
(* race, the member whose reaction decided it (win) and the order in which *)
(* the reactions to its members ran (seen).                                *)

\* the AsyncResult whose resultPromise is heap[i]
AsyncRef(i) == [k |-> "asyncresult", ref |-> i]

Fulfilled(v, calls) == [st |-> "fulfilled", v |-> v, calls |-> calls]
Rejected(v, calls) == [st |-> "rejected", v |-> v, calls |-> calls]

\* await x: a promise gives its settlement; the simple _AsyncResult has a
\* then method, so awaiting it awaits its resultPromise; the checked one has
\* none and is awaited as a plain value
Await(h, x, calls) ==
    CASE x.k = "promise" -> [st |-> x.st, v |-> x.v, calls |-> calls]
      [] x.k = "asyncresult" /\ variant = "simple" ->
            [st |-> h[x.ref].st, v |-> h[x.ref].v, calls |-> calls]
      [] OTHER -> Fulfilled(x, calls)

\* the body of toResultPromise after const awaited = await it
toResultPromise_awaited(h, a) ==
    IF a.st = "rejected" THEN a
    ELSE IF isResult(a.v) THEN a
    ELSE IF a.v.k = "asyncresult"
      THEN [st |-> h[a.v.ref].st, v |-> h[a.v.ref].v, calls |-> a.calls]
      ELSE [a EXCEPT !.v = Ok(a.v)]

toResultPromise(h, it, calls) == toResultPromise_awaited(h, Await(h, it, calls))

\* x can be awaited to the end now
AwaitReady(h, x) == x.k = "asyncresult" => h[x.ref].st # "pending"

\* the promise then() returns for a handler that is `toResultPromise(cb(..))`
\* and completed as c
ThenReturn(h, c) ==
    IF c.t = "throw" THEN Rejected(c.v, c.calls) ELSE toResultPromise(h, c.v, c.calls)

\* the promise then() returns for a handler that completed as c
PlainReturn(h, c) ==
    IF c.t = "throw" THEN Rejected(c.v, c.calls) ELSE Await(h, c.v, c.calls)

\* a finally_ that keeps the rejection of its receiver when the callback
\* produced an Err
async_finally_fn_awaited_keeping(this, s) ==
    IF s.st = "rejected" THEN Return(Promise("rejected", s.v), s.calls)
    ELSE IF ~s.v.data.isOk /\ this.st # "rejected"
      THEN Return(Promise("fulfilled", s.v), s.calls)
      ELSE Return(Promise(this.st, this.v), s.calls)

\* finally_'s fn after newResult = await toResultPromise(cb()) settled as s
async_finally_fn_awaited(this, s) ==
    IF s.st = "rejected" THEN Return(Promise("rejected", s.v), s.calls)
    ELSE IF ~s.v.data.isOk THEN Return(Promise("fulfilled", s.v), s.calls)
    ELSE Return(Promise(this.st, this.v), s.calls)

async_finally_fn(h, this, cb) ==
    async_finally_fn_awaited(this, ThenReturn(h, CallUser("cb", cb, <<>>)))

\* the callback catchInstanceOf gives to catch_
catchInstanceOf_cb(type, errCb, error) ==
    IF InstanceOf(error, type)
      THEN CallUser("errCb", errCb, <<error>>)
      ELSE Return(_Result([isOk |-> FALSE, value |-> error]), <<>>)

\* the callback catchKnown gives to catch_
catchKnown_cb(cb, error) ==
    IF error.type = "UNCHECKED_ERROR"
      THEN Return(_Result([isOk |-> FALSE, value |-> error]), <<>>)
      ELSE CallUser("cb", cb, <<error.error>>)

\* the callback catchKnownInstanceOf gives to catch_
catchKnownInstanceOf_cb(type, cb, error) ==
    IF error.type = "CHECKED_ERROR" /\ InstanceOf(error.error, type)
      THEN CallUser("cb", cb, <<error.error>>)
      ELSE Return(_Result([isOk |-> FALSE, value |-> error]), <<>>)

\* the callback getValueOrRejectWithErrorHolder gives to catch_
wrapHolder_cb(errorHolder) ==
    Return(_Result([isOk |-> FALSE, value |-> makeCheckedErrorHolder(errorHolder)]), <<>>)

\* a call of f, a callback of the caller's or a closure of the library
AsyncInvoke(h, role, f, args) ==
    CASE f.kind = "async_finally_fn" -> async_finally_fn(h, f.this, f.cb)
      [] f.kind = "catchInstanceOf_cb" -> catchInstanceOf_cb(f.type, f.cb, args[1])
      [] f.kind = "catchKnown_cb" -> catchKnown_cb(f.cb, args[1])
      [] f.kind = "catchKnownInstanceOf_cb" ->
            catchKnownInstanceOf_cb(f.type, f.cb, args[1])
      [] f.kind = "wrapHolder_cb" -> wrapHolder_cb(args[1])
      [] OTHER -> CallUser(role, f, args)

\* Result.valueOrFallback, the same in both variants
valueOrFallback(result, getFallback) ==
    IF result.data.isOk
      THEN Return(result.data.value, <<>>)
      ELSE CallUser("errCb", getFallback, <<result.data.value>>)

------------------------------------------------------------------------------
(* The simple AsyncResult.  r is the settlement of this.resultPromise.     *)

Simple_AsyncResult(h, arg) == toResultPromise(h, arg, <<>>)

\* the calls made before s was computed, put in front of those of s
AfterCalls(calls, s) == [s EXCEPT !.calls = calls \o @]

\* .catch(rejectionCb) behind a promise settled as s
Chained_catch(h, s, rejectionCb) ==
    IF s.st = "rejected" /\ rejectionCb # NoCb
      THEN AfterCalls(s.calls,
                      ThenReturn(h, AsyncInvoke(h, "rejectionCb", rejectionCb, <<s.v>>)))
      ELSE s

\* a then_ written as .then(onResult).catch(onRejection)
Simple_async_then_chained(h, r, okCb, errCb, rejectionCb) ==
    Chained_catch(h,
      IF r.st = "rejected"
        THEN Rejected(r.v, <<>>)
        ELSE IF ~r.v.data.isOk
               THEN IF errCb # NoCb
                      THEN ThenReturn(h, AsyncInvoke(h, "errCb", errCb, <<r.v.data.value>>))
                      ELSE Fulfilled(r.v, <<>>)
               ELSE ThenReturn(h, AsyncInvoke(h, "okCb", okCb, <<r.v.data.value>>)),
      rejectionCb)

\* a then_ whose receiver hands its value to one continuation only: the
\* okCb of a second continuation is not called
Simple_async_then_consumed(h, r, okCb, errCb, rejectionCb) ==
    IF r.st = "rejected"
      THEN IF rejectionCb # NoCb
             THEN ThenReturn(h, AsyncInvoke(h, "rejectionCb", rejectionCb, <<r.v>>))
             ELSE Rejected(r.v, <<>>)
      ELSE IF ~r.v.data.isOk
             THEN IF errCb # NoCb
                    THEN ThenReturn(h, AsyncInvoke(h, "errCb", errCb, <<r.v.data.value>>))
                    ELSE Fulfilled(r.v, <<>>)
             ELSE IF \E k \in 1..Len(h) :
                       h[k].recv # 0 /\ h[h[k].recv] = r /\ h[k].calls # <<>>
                    THEN Fulfilled(r.v, <<>>)
                    ELSE ThenReturn(h, AsyncInvoke(h, "okCb", okCb, <<r.v.data.value>>))

Simple_async_then_(h, r, okCb, errCb, rejectionCb) ==
    IF r.st = "rejected"
      THEN IF rejectionCb # NoCb
             THEN ThenReturn(h, AsyncInvoke(h, "rejectionCb", rejectionCb, <<r.v>>))
             ELSE Rejected(r.v, <<>>)
      ELSE IF ~r.v.data.isOk
             THEN IF errCb # NoCb
                    THEN ThenReturn(h, AsyncInvoke(h, "errCb", errCb, <<r.v.data.value>>))
                    ELSE Fulfilled(r.v, <<>>)
             ELSE ThenReturn(h, AsyncInvoke(h, "okCb", okCb, <<r.v.data.value>>))

\* a catch_ that takes a rejection for a failure
Simple_async_catch_absorbing(h, r, errCb, rejectionCb) ==
    IF r.st = "rejected"
      THEN IF rejectionCb # NoCb
             THEN ThenReturn(h, AsyncInvoke(h, "rejectionCb", rejectionCb, <<r.v>>))
             ELSE Fulfilled(Simple_Err(r.v), <<>>)
      ELSE IF r.v.data.isOk
             THEN Fulfilled(r.v, <<>>)
             ELSE ThenReturn(h, AsyncInvoke(h, "errCb", errCb, <<r.v.data.value>>))

Simple_async_catch_(h, r, errCb, rejectionCb) ==
    IF r.st = "rejected"
      THEN IF rejectionCb # NoCb
             THEN ThenReturn(h, AsyncInvoke(h, "rejectionCb", rejectionCb, <<r.v>>))
             ELSE Rejected(r.v, <<>>)
      ELSE IF r.v.data.isOk
             THEN Fulfilled(r.v, <<>>)
             ELSE ThenReturn(h, AsyncInvoke(h, "errCb", errCb, <<r.v.data.value>>))

Simple_async_catchInstanceOf(h, r, type, errCb, rejectionCb) ==
    Simple_async_catch_(h, r,
                        [kind |-> "catchInstanceOf_cb", type |-> type, cb |-> errCb],
                        rejectionCb)

Simple_async_finally_(h, r, cb) ==
    Simple_async_then_(h, r,
                       [kind |-> "async_finally_fn", cb |-> cb, this |-> r],
                       [kind |-> "async_finally_fn", cb |-> cb, this |-> r],
                       [kind |-> "async_finally_fn", cb |-> cb, this |-> r])

\* a valueOrFallback that gives then() no rejection handler
Simple_async_valueOrFallback_unhandled(h, r, errCb, rejectionCb) ==
    IF r.st = "rejected"
      THEN Rejected(r.v, <<>>)
      ELSE PlainReturn(h, valueOrFallback(r.v, errCb))

Simple_async_valueOrFallback(h, r, errCb, rejectionCb) ==
    IF r.st = "rejected"
      THEN IF rejectionCb # NoCb
             THEN PlainReturn(h, CallUser("rejectionCb", rejectionCb, <<r.v>>))
             ELSE Rejected(r.v, <<>>)
      ELSE PlainReturn(h, valueOrFallback(r.v, errCb))

------------------------------------------------------------------------------
(* The checked AsyncResult.                                                *)

\* a chain without .catch
Checked_catch_missing(s) == s

\* .catch((error) => ErrUnchecked(error))
Checked_catch(s) ==
    IF s.st = "rejected" THEN Fulfilled(ErrUnchecked(s.v), s.calls) ELSE s

Checked_AsyncResult(h, arg) == Checked_catch(toResultPromise(h, arg, <<>>))

Checked_async_then_(h, r, okCb, errCb) ==
    Checked_catch(
      IF r.st = "rejected"
        THEN Rejected(r.v, <<>>)
        ELSE IF ~r.v.data.isOk
               THEN IF errCb # NoCb
                      THEN ThenReturn(h, AsyncInvoke(h, "errCb", errCb, <<r.v.data.value>>))
                      ELSE Fulfilled(r.v, <<>>)
               ELSE ThenReturn(h, AsyncInvoke(h, "okCb", okCb, <<r.v.data.value>>)))

Checked_async_catch_(h, r, cb) ==
    Checked_catch(
      IF r.st = "rejected"
        THEN Rejected(r.v, <<>>)
        ELSE IF r.v.data.isOk
               THEN Fulfilled(r.v, <<>>)
               ELSE ThenReturn(h, AsyncInvoke(h, "cb", cb, <<r.v.data.value>>)))

Checked_async_catchKnown(h, r, cb) ==
    Checked_async_catch_(h, r, [kind |-> "catchKnown_cb", cb |-> cb])

Checked_async_catchKnownInstanceOf(h, r, type, cb) ==
    Checked_async_catch_(h, r,
                         [kind |-> "catchKnownInstanceOf_cb", type |-> type, cb |-> cb])

Checked_async_finally_(h, r, cb) ==
    Checked_async_then_(h, r,
                        [kind |-> "async_finally_fn", cb |-> cb, this |-> r],
                        [kind |-> "async_finally_fn", cb |-> cb, this |-> r])

Checked_async_valueOrFallback(h, r, getFallback) ==
    IF r.st = "rejected"
      THEN Rejected(r.v, <<>>)
      ELSE PlainReturn(h, valueOrFallback(r.v, getFallback))

\* AsyncResult.valueOrThrow on a resultPromise settled as s
Checked_async_valueOrThrow(s) ==
    IF s.st = "rejected" THEN s
    ELSE IF s.v.data.isOk
      THEN Fulfilled(s.v.data.value, s.calls)
      ELSE Rejected(s.v.data.value.error, s.calls)

getValueOrRejectWithErrorHolder(h, r) ==
    Checked_async_valueOrThrow(Checked_async_catch_(h, r, [kind |-> "wrapHolder_cb"]))

------------------------------------------------------------------------------
(* The combinators over several AsyncResults.  e is the heap entry of the  *)
(* combined AsyncResult, e.members the indices of the AsyncResults given.  *)

Positions(e) == 1..Len(e.members)

Member(h, e, j) == h[e.members[j]]

\* the lowest position of S
Lowest(S) == CHOOSE j \in S : \A k \in S : j <= k

SettledAt(h, e) == {j \in Positions(e) : Member(h, e, j).st # "pending"}
RejectedAt(h, e) == {j \in Positions(e) : Member(h, e, j).st = "rejected"}
FailedAt(h, e) ==
    {j \in Positions(e) : Member(h, e, j).st = "fulfilled" /\ ~Member(h, e, j).v.data.isOk}

AllSettled(h, e) == SettledAt(h, e) = Positions(e)

\* Promise.all(...) has settled
Simple_all_ready(h, e) == e.win # 0 \/ AllSettled(h, e)

\* an all that looks for an Err before it looks for a rejection
Simple_all_errFirst(h, e) ==
    Simple_AsyncResult(h,
      IF FailedAt(h, e) # {}
        THEN Promise("fulfilled",
                     Simple_Err(Member(h, e, Lowest(FailedAt(h, e))).v.data.value))
        ELSE IF e.win # 0
               THEN Promise("rejected", Member(h, e, e.win).v)
               ELSE Promise("fulfilled",
                            Ok(Array([j \in Positions(e) |-> Member(h, e, j).v.data.value]))))

Simple_all(h, e) ==
    Simple_AsyncResult(h,
      IF e.win # 0
        THEN Promise("rejected", Member(h, e, e.win).v)
        ELSE IF FailedAt(h, e) # {}
               THEN Promise("fulfilled",
                            Simple_Err(Member(h, e, Lowest(FailedAt(h, e))).v.data.value))
               ELSE Promise("fulfilled",
                            Ok(Array([j \in Positions(e) |-> Member(h, e, j).v.data.value]))))

Simple_allSettled_item(m) ==
    IF m.st = "fulfilled"
      THEN [k |-> "object", type |-> IF m.v.data.isOk THEN "ok" ELSE "err",
            value |-> m.v.data.value]
      ELSE [k |-> "object", type |-> "rejection", value |-> m.v]

\* an allSettled that fails when a member was rejected, as all does
Simple_allSettled_failing(h, e) ==
    Simple_AsyncResult(h,
      IF RejectedAt(h, e) # {}
        THEN Promise("rejected", Member(h, e, Lowest(RejectedAt(h, e))).v)
        ELSE Promise("fulfilled",
                     Array([j \in Positions(e) |-> Simple_allSettled_item(Member(h, e, j))])))

Simple_allSettled(h, e) ==
    Simple_AsyncResult(h,
      Promise("fulfilled",
              Array([j \in Positions(e) |-> Simple_allSettled_item(Member(h, e, j))])))

\* Promise.race(...) has settled
race_ready(h, e) == e.win # 0

\* a race decided by the position of the members, not by when they settled
Simple_race_byPosition(h, e) ==
    Simple_AsyncResult(h,
      Promise(Member(h, e, Lowest(SettledAt(h, e))).st,
              Member(h, e, Lowest(SettledAt(h, e))).v))

Simple_race(h, e) ==
    Simple_AsyncResult(h,
      Promise(Member(h, e, e.win).st, Member(h, e, e.win).v))

\* getValueOrRejectWithErrorHolder of member j
Unwrapped(h, e, j) == getValueOrRejectWithErrorHolder(h, Member(h, e, j))

UnwrapRejectedAt(h, e) == {j \in SettledAt(h, e) : Unwrapped(h, e, j).st = "rejected"}
UnwrapFulfilledAt(h, e) == {j \in SettledAt(h, e) : Unwrapped(h, e, j).st = "fulfilled"}

Checked_all_ready(h, e) == e.win # 0 \/ AllSettled(h, e)

\* the .catch of AsyncResult.all; a reason that is no ErrorHolder has neither
\* a type nor an error
Checked_all_catch(error) ==
    IF error.k = "holder"
      THEN IF error.type = "UNCHECKED_ERROR"
             THEN ErrUnchecked(error.error)
             ELSE Checked_Err(error.error)
      ELSE Checked_Err(Undefined)

Checked_all(h, e) ==
    Checked_AsyncResult(h,
      IF e.win # 0
        THEN Promise("fulfilled", Checked_all_catch(Unwrapped(h, e, e.win).v))
        ELSE Promise("fulfilled",
                     Ok(Array([j \in Positions(e) |-> Unwrapped(h, e, j).v]))))

Checked_any_ready(h, e) == e.win # 0 \/ AllSettled(h, e)

\* an any that takes the Ok member listed first
Checked_any_byPosition(h, e) ==
    Checked_AsyncResult(h,
      IF e.win # 0
        THEN Promise("fulfilled", Ok(Unwrapped(h, e, Lowest(UnwrapFulfilledAt(h, e))).v))
        ELSE Promise("fulfilled",
                     Checked_Err(AggregateError([j \in Positions(e) |-> Unwrapped(h, e, j).v]))))

\* an any whose AggregateError lists the failures as they happened
Checked_any_settleOrder(h, e) ==
    Checked_AsyncResult(h,
      IF e.win # 0
        THEN Promise("fulfilled", Ok(Unwrapped(h, e, e.win).v))
        ELSE Promise("fulfilled",
                     Checked_Err(AggregateError([n \in 1..Len(e.seen) |->
                                                   Unwrapped(h, e, e.seen[n]).v]))))

Checked_any(h, e) ==
    Checked_AsyncResult(h,
      IF e.win # 0
        THEN Promise("fulfilled", Ok(Unwrapped(h, e, e.win).v))
        ELSE Promise("fulfilled",
                     Checked_Err(AggregateError([j \in Positions(e) |-> Unwrapped(h, e, j).v]))))

Checked_allSettled(h, e) ==
    Checked_AsyncResult(h,
      Promise("fulfilled",
              Array([j \in Positions(e) |->
                       IF Member(h, e, j).st = "fulfilled"
                         THEN Member(h, e, j).v ELSE Undefined])))

Checked_race(h, e) ==
    Checked_AsyncResult(h,
      Promise(Member(h, e, e.win).st, Member(h, e, e.win).v))

------------------------------------------------------------------------------
(* Heap entries *)

\* an entry before the call that makes it fills it in
Blank ==
    [ar |-> TRUE, op |-> "", recv |-> 0, members |-> <<>>, errCb |-> FALSE,
     rejectionCb |-> FALSE, type |-> "", arg |-> Undefined, prog |-> Idle,
     gen |-> Idle, done |-> FALSE, awaiting |-> Idle, win |-> 0, seen |-> <<>>,
     st |-> "pending", v |-> Undefined, calls |-> <<>>, cb |-> NoCb]

\* the entry e once its promise settled as s; cb is what the callbacks of the
\* call did when one ran
Settled(e, s, cb) ==
    [e EXCEPT !.st = s.st, !.v = s.v, !.calls = s.calls,
              !.cb = IF s.calls = <<>> THEN NoCb ELSE cb]

\* the members whose settlement decides Promise.race, Promise.all or
\* Promise.any as soon as it happens
Deciding(h, e) ==
    CASE e.op = "race" -> SettledAt(h, e)
      [] e.op = "all" ->
           IF variant = "simple" THEN RejectedAt(h, e) ELSE UnwrapRejectedAt(h, e)
      [] e.op = "any" -> UnwrapFulfilledAt(h, e)
      [] OTHER -> {}

\* the reactions registered on the members of e run in the order the members
\* settle, and in input order for the members that had settled when the call
\* was made; seen lists the members in the order their reactions ran, and
\* SeenFrom adds to it the members from position j on that settled since
RECURSIVE SeenFrom(_, _, _, _)
SeenFrom(h, e, j, seen) ==
    IF j > Len(e.members)
      THEN seen
      ELSE SeenFrom(h, e, j + 1,
                    IF /\ Member(h, e, j).st # "pending"
                       /\ \A n \in 1..Len(seen) : seen[n] # j
                      THEN Append(seen, j)
                      ELSE seen)

Observed(h, e) ==
    IF e.members = <<>> THEN e ELSE [e EXCEPT !.seen = SeenFrom(h, e, 1, @)]

\* the reactions Promise.race, Promise.all and Promise.any registered on
\* their members run when a member settles, or in input order for the
\* members that had settled when the call was made; the first one decides
Reacted(h) ==
    [i \in 1..Len(h) |->
       IF h[i].st = "pending" /\ h[i].win = 0 /\ Deciding(h, h[i]) # {}
         THEN [Observed(h, h[i]) EXCEPT !.win = Lowest(Deciding(h, h[i]))]
         ELSE Observed(h, h[i])]

\* the callback given for a parameter that may be left out
Given(present, cb) == IF present THEN cb ELSE NoCb

------------------------------------------------------------------------------
(* AsyncResult.run.  The entry keeps the generator, the argument of the    *)
(* next gen.next (arg), and between gen.next and the settlement of what it *)
(* yielded, the yielded value (awaiting) and done.                         *)

\* andThen up to the await, checked variant, from n = gen.next(v)
Checked_andThen_next(e, n) ==
    IF n.t = "throw"
      THEN Settled([e EXCEPT !.gen = n.gen],
                   Fulfilled(ErrUnchecked(n.value), <<>>), NoCb)
      ELSE [e EXCEPT !.gen = n.gen, !.done = n.done, !.awaiting = n.value]

\* andThen from the await on, checked variant, s the settlement of
\* toResultPromise(value)
Checked_andThen_resume(e, s) ==
    IF s.st = "rejected"
      THEN Settled(e, Fulfilled(ErrUnchecked(s.v), <<>>), NoCb)
      ELSE IF e.done
             THEN Settled(e, Checked_catch(s), NoCb)
             ELSE IF ~s.v.data.isOk
                    THEN Settled([e EXCEPT !.gen = gen_return(e.prog, e.gen, e.awaiting).gen],
                                 Checked_catch(s), NoCb)
                    ELSE [e EXCEPT !.arg = s.v.data.value, !.awaiting = Idle]

\* andThen up to the first then_, simple variant, from n = gen.next(v)
Simple_andThen_next(e, n) ==
    IF n.t = "throw"
      THEN Settled([e EXCEPT !.gen = n.gen], Rejected(n.value, <<>>), NoCb)
      ELSE [e EXCEPT !.gen = n.gen, !.done = n.done, !.awaiting = n.value]

\* an andThen whose failure callbacks leave the generator suspended
Simple_andThen_resume_noCleanup(e, s) ==
    IF e.done
      THEN Settled(e, s, NoCb)
      ELSE IF s.st = "rejected"
             THEN Settled(e, Rejected(s.v, <<>>), NoCb)
             ELSE IF ~s.v.data.isOk
                    THEN Settled(e, Fulfilled(Simple_Err(s.v.data.value), <<>>), NoCb)
                    ELSE [e EXCEPT !.arg = s.v.data.value, !.awaiting = Idle]

\* the callbacks andThen gives to then_, simple variant, s the settlement of
\* toResultPromise(value)
Simple_andThen_resume(e, s) ==
    IF e.done
      THEN Settled(e, s, NoCb)
      ELSE IF s.st = "rejected"
             THEN Settled([e EXCEPT !.gen = gen_return(e.prog, e.gen, s.v).gen],
                          Rejected(s.v, <<>>), NoCb)
             ELSE IF ~s.v.data.isOk
                    THEN Settled([e EXCEPT !.gen =
                                     gen_return(e.prog, e.gen, s.v.data.value).gen],
                                 Fulfilled(Simple_Err(s.v.data.value), <<>>), NoCb)
                    ELSE [e EXCEPT !.arg = s.v.data.value, !.awaiting = Idle]

------------------------------------------------------------------------------
(* Inputs of the AsyncResult API *)

\* what a callback does when it is called: return a plain value, return an
\* Err, throw, return a promise that rejects
AsyncCallbacks ==
    {[kind |-> "inc"],
     [kind |-> "const", v |-> Err(E1)],
     [kind |-> "throw", v |-> E2],
     [kind |-> "const", v |-> Promise("rejected", Num(2))]}

\* finally_'s callback may also return an Ok, a promise of an Err or of a
\* plain value, or one of the caller's AsyncResults
AsyncFinallyCallbacks ==
    AsyncCallbacks
      \cup {[kind |-> "const", v |-> v] :
               v \in {Ok(Num(2)), Promise("fulfilled", Err(E1)),
                      Promise("fulfilled", Num(1)), AsyncRef(1), AsyncRef(2)}}

\* the promises the caller makes AsyncResults of
Sources ==
    {Promise("fulfilled", Num(1)), Promise("fulfilled", Err(E1)),
     Promise("rejected", E2), Promise("rejected", Err(E1))}

MoreSources == {Promise("fulfilled", Ok(Num(2))), Promise("rejected", Num(2))}

Types == {"Error", "CustomError"}

YieldStar(x) == [s |-> "yield*", r |-> x]

\* the generator functions given to AsyncResult.run
AsyncPrograms ==
    {[wrap |-> "none", catchVal |-> Undefined,
      stmts |-> <<YieldStar(AsyncRef(1)), [s |-> "return", v |-> Num(0)]>>],
     [wrap |-> "finally", catchVal |-> Undefined,
      stmts |-> <<YieldStar(AsyncRef(1)), YieldStar(AsyncRef(2))>>],
     [wrap |-> "none", catchVal |-> Undefined,
      stmts |-> <<YieldStar(AsyncRef(2)), [s |-> "throw", e |-> E2]>>],
     [wrap |-> "catch", catchVal |-> Num(0),
      stmts |-> <<[s |-> "throw", e |-> E2]>>],
     [wrap |-> "finally", catchVal |-> Undefined,
      stmts |-> <<YieldStar(Err(E1)), [s |-> "return", v |-> Num(0)]>>],
     [wrap |-> "none", catchVal |-> Undefined,
      stmts |-> <<[s |-> "return", v |-> AsyncRef(2)]>>]}

\* the AsyncResults of the heap
AsyncResults(h) == {i \in 1..Len(h) : h[i].ar}

\* the lists of AsyncResults given to all, any, allSettled and race
MemberLists(h) ==
    {<<>>} \cup {ms \in AsyncResults(h) \X AsyncResults(h) : ms[1] # ms[2]}

\* the choices for the rejectionCb parameter, which only the simple variant has
RejectionCbs == IF variant = "simple" THEN BOOLEAN ELSE {FALSE}

------------------------------------------------------------------------------
(* The AsyncResult API: the caller has made two AsyncResults of promises   *)
(* of its own, and calls the API on the AsyncResults it has; the promises  *)
(* settle in any order that respects what they wait for.                   *)

InitAsync ==
    /\ variant \in Variants
    /\ \E a \in Sources, b \in MoreSources :
          heap = <<[Blank EXCEPT !.op = "AsyncResult", !.arg = a],
                   [Blank EXCEPT !.op = "AsyncResult", !.arg = b]>>
    /\ steps = 0
    /\ pc = "async"
    /\ cur = Idle /\ last = NoCall
    /\ prog = Idle /\ gen = Idle /\ done = FALSE /\ returnResult = Idle
    /\ raised = Undefined

\* a call returns a new promise, still pending
Push(e) ==
    /\ heap' = Reacted(Append(heap, e))
    /\ steps' = steps + 1
    /\ UNCHANGED <<variant, cur, last, runVars>>

CanCall == pc = "async" /\ steps < MaxOps

Call_then_ ==
    /\ CanCall
    /\ \E i \in AsyncResults(heap), errCb \in BOOLEAN, rejectionCb \in RejectionCbs :
         Push([Blank EXCEPT !.op = "then_", !.recv = i, !.errCb = errCb,
                            !.rejectionCb = rejectionCb])

Call_catch_ ==
    /\ CanCall
    /\ \E i \in AsyncResults(heap), rejectionCb \in RejectionCbs :
         Push([Blank EXCEPT !.op = "catch_", !.recv = i, !.errCb = TRUE,
                            !.rejectionCb = rejectionCb])

Call_catchInstanceOf ==
    /\ CanCall /\ variant = "simple"
    /\ \E i \in AsyncResults(heap), type \in Types, rejectionCb \in RejectionCbs :
         Push([Blank EXCEPT !.op = "catchInstanceOf", !.recv = i, !.type = type,
                            !.errCb = TRUE, !.rejectionCb = rejectionCb])

Call_catchKnown ==
    /\ CanCall /\ variant = "checked"
    /\ \E i \in AsyncResults(heap) :
         Push([Blank EXCEPT !.op = "catchKnown", !.recv = i, !.errCb = TRUE])

Call_catchKnownInstanceOf ==
    /\ CanCall /\ variant = "checked"
    /\ \E i \in AsyncResults(heap), type \in Types :
         Push([Blank EXCEPT !.op = "catchKnownInstanceOf", !.recv = i,
                            !.type = type, !.errCb = TRUE])

Call_finally_ ==
    /\ CanCall
    /\ \E i \in AsyncResults(heap) :
         Push([Blank EXCEPT !.op = "finally_", !.recv = i])

Call_valueOrFallback ==
    /\ CanCall
    /\ \E i \in AsyncResults(heap), rejectionCb \in RejectionCbs :
         Push([Blank EXCEPT !.ar = FALSE, !.op = "valueOrFallback", !.recv = i,
                            !.errCb = TRUE, !.rejectionCb = rejectionCb])

Call_all ==
    /\ CanCall
    /\ \E ms \in MemberLists(heap) : Push([Blank EXCEPT !.op = "all", !.members = ms])

Call_any ==
    /\ CanCall /\ variant = "checked"
    /\ \E ms \in MemberLists(heap) : Push([Blank EXCEPT !.op = "any", !.members = ms])

Call_allSettled ==
    /\ CanCall
    /\ \E ms \in MemberLists(heap) :
         Push([Blank EXCEPT !.op = "allSettled", !.members = ms])

Call_race ==
    /\ CanCall
    /\ \E ms \in MemberLists(heap) : Push([Blank EXCEPT !.op = "race", !.members = ms])

Call_run ==
    /\ CanCall
    /\ \E p \in AsyncPrograms :
         Push([Blank EXCEPT !.op = "run", !.prog = p, !.gen = NewGen])

\* the ops whose promise settles in reaction to one receiver
Chaining ==
    {"then_", "catch_", "catchInstanceOf", "catchKnown", "catchKnownInstanceOf",
     "finally_", "valueOrFallback"}

Combining == {"all", "any", "allSettled", "race"}

\* the settlement of the promise of e, a chaining call, when the receiver has
\* settled and the callback that runs does cb
Reaction(h, e, cb) ==
    CASE e.op = "then_" ->
           IF variant = "simple"
             THEN Simple_async_then_(h, h[e.recv], cb, Given(e.errCb, cb),
                                     Given(e.rejectionCb, cb))
             ELSE Checked_async_then_(h, h[e.recv], cb, Given(e.errCb, cb))
      [] e.op = "catch_" ->
           IF variant = "simple"
             THEN Simple_async_catch_(h, h[e.recv], cb, Given(e.rejectionCb, cb))
             ELSE Checked_async_catch_(h, h[e.recv], cb)
      [] e.op = "catchInstanceOf" ->
           Simple_async_catchInstanceOf(h, h[e.recv], e.type, cb,
                                        Given(e.rejectionCb, cb))
      [] e.op = "catchKnown" -> Checked_async_catchKnown(h, h[e.recv], cb)
      [] e.op = "catchKnownInstanceOf" ->
           Checked_async_catchKnownInstanceOf(h, h[e.recv], e.type, cb)
      [] e.op = "finally_" ->
           IF variant = "simple"
             THEN Simple_async_finally_(h, h[e.recv], cb)
             ELSE Checked_async_finally_(h, h[e.recv], cb)
      [] e.op = "valueOrFallback" ->
           IF variant = "simple"
             THEN Simple_async_valueOrFallback(h, h[e.recv], cb,
                                               Given(e.rejectionCb, cb))
             ELSE Checked_async_valueOrFallback(h, h[e.recv], cb)

CombinedReady(h, e) ==
    CASE e.op = "all" ->
           IF variant = "simple" THEN Simple_all_ready(h, e) ELSE Checked_all_ready(h, e)
      [] e.op = "any" -> Checked_any_ready(h, e)
      [] e.op = "allSettled" -> AllSettled(h, e)
      [] e.op = "race" -> race_ready(h, e)

Combined(h, e) ==
    CASE e.op = "all" ->
           IF variant = "simple" THEN Simple_all(h, e) ELSE Checked_all(h, e)
      [] e.op = "any" -> Checked_any(h, e)
      [] e.op = "allSettled" ->
           IF variant = "simple" THEN Simple_allSettled(h, e) ELSE Checked_allSettled(h, e)
      [] e.op = "race" ->
           IF variant = "simple" THEN Simple_race(h, e) ELSE Checked_race(h, e)

Rest == <<variant, cur, last, steps, runVars>>

Pending(i) == pc = "async" /\ i \in 1..Len(heap) /\ heap[i].st = "pending"

\* the caller's promise settles, and with it the AsyncResult made of it
SourceSettles ==
    \E i \in 1..Len(heap) :
      /\ Pending(i) /\ heap[i].op = "AsyncResult"
      /\ heap' = Reacted([heap EXCEPT ![i] =
                            Settled(@,
                                    IF variant = "simple"
                                      THEN Simple_AsyncResult(heap, @.arg)
                                      ELSE Checked_AsyncResult(heap, @.arg),
                                    NoCb)])
      /\ UNCHANGED Rest

\* the reaction of a chaining call to the settlement of its receiver
Reacts ==
    \E i \in 1..Len(heap) :
      /\ Pending(i) /\ heap[i].op \in Chaining
      /\ heap[heap[i].recv].st # "pending"
      /\ \E cb \in AsyncCallbacks :
           heap' = Reacted([heap EXCEPT ![i] = Settled(@, Reaction(heap, @, cb), cb)])
      /\ UNCHANGED Rest

\* the promise of all, any, allSettled or race settles
Combines ==
    \E i \in 1..Len(heap) :
      /\ Pending(i) /\ heap[i].op \in Combining
      /\ CombinedReady(heap, heap[i])
      /\ heap' = Reacted([heap EXCEPT ![i] = Settled(@, Combined(heap, @), NoCb)])
      /\ UNCHANGED Rest

\* andThen calls gen.next
RunNexts ==
    \E i \in 1..Len(heap) :
      /\ Pending(i) /\ heap[i].op = "run" /\ heap[i].awaiting = Idle
      /\ heap' = Reacted([heap EXCEPT ![i] =
                            IF variant = "simple"
                              THEN Simple_andThen_next(@, gen_next(@.prog, @.gen, @.arg))
                              ELSE Checked_andThen_next(@, gen_next(@.prog, @.gen, @.arg))])
      /\ UNCHANGED Rest

\* what the generator yielded or returned has settled
RunResumes ==
    \E i \in 1..Len(heap) :
      /\ Pending(i) /\ heap[i].op = "run" /\ heap[i].awaiting # Idle
      /\ AwaitReady(heap, heap[i].awaiting)
      /\ heap' = Reacted([heap EXCEPT ![i] =
                            IF variant = "simple"
                              THEN Simple_andThen_resume(@, toResultPromise(heap, @.awaiting, <<>>))
                              ELSE Checked_andThen_resume(@, toResultPromise(heap, @.awaiting, <<>>))])
      /\ UNCHANGED Rest

NextAsync ==
    \/ Call_then_ \/ Call_catch_ \/ Call_catchInstanceOf \/ Call_catchKnown
    \/ Call_catchKnownInstanceOf \/ Call_finally_ \/ Call_valueOrFallback
    \/ Call_all \/ Call_any \/ Call_allSettled \/ Call_race \/ Call_run
    \/ SourceSettles \/ Reacts \/ Combines \/ RunNexts \/ RunResumes

SpecAsync == InitAsync /\ [][NextAsync]_vars

------------------------------------------------------------------------------
(* Several continuations of one AsyncResult: the caller has made an        *)
(* AsyncResult of a promise of its own and called then_, catch_ or         *)
(* finally_ on it, and goes on calling then_, catch_ and finally_ on the   *)
(* AsyncResults it has.                                                    *)

InitAttached ==
    /\ variant \in Variants
    /\ \E a \in Sources, op \in {"then_", "catch_", "finally_"},
          errCb \in BOOLEAN, rejectionCb \in RejectionCbs :
          heap = <<[Blank EXCEPT !.op = "AsyncResult", !.arg = a],
                   [Blank EXCEPT !.op = op, !.recv = 1,
                                 !.errCb = IF op = "then_" THEN errCb ELSE op = "catch_",
                                 !.rejectionCb = rejectionCb /\ op # "finally_"]>>
    /\ steps = 0
    /\ pc = "async"
    /\ cur = Idle /\ last = NoCall
    /\ prog = Idle /\ gen = Idle /\ done = FALSE /\ returnResult = Idle
    /\ raised = Undefined

NextAttached == Call_then_ \/ Call_catch_ \/ Call_finally_ \/ SourceSettles \/ Reacts

SpecAttached == InitAttached /\ [][NextAttached]_vars

------------------------------------------------------------------------------
(* AsyncResult.all, any, allSettled and race: the caller has made two      *)
(* AsyncResults of promises of its own, and calls then_ and the four       *)
(* functions on the AsyncResults it has.                                   *)

NextCombining ==
    \/ Call_then_ \/ Call_all \/ Call_any \/ Call_allSettled \/ Call_race
    \/ SourceSettles \/ Reacts \/ Combines

SpecCombining == InitAsync /\ [][NextCombining]_vars

------------------------------------------------------------------------------
(* finally_ of an AsyncResult: the caller has made two AsyncResults of     *)
(* promises of its own and calls finally_ on the AsyncResults it has, with *)
(* callbacks that may return a promise or one of the two AsyncResults.     *)

\* the reaction of finally_ to the settlement of its receiver; an
\* AsyncResult the callback returns has settled by the time the await of it
\* ends
FinallyReacts ==
    \E i \in 1..Len(heap) :
      /\ Pending(i) /\ heap[i].op = "finally_"
      /\ heap[heap[i].recv].st # "pending"
      /\ \E cb \in AsyncFinallyCallbacks :
           /\ cb.kind = "const" => AwaitReady(heap, cb.v)
           /\ heap' = Reacted([heap EXCEPT ![i] = Settled(@, Reaction(heap, @, cb), cb)])
      /\ UNCHANGED Rest

NextFinally == Call_finally_ \/ SourceSettles \/ FinallyReacts

SpecFinally == InitAsync /\ [][NextFinally]_vars

------------------------------------------------------------------------------
(* AsyncResult.compose: the caller has made an AsyncResult of a promise of *)
(* its own and calls, once, a function made by AsyncResult.compose from    *)
(* functions of its own; the promises then settle.  An exception that      *)
(* leaves the call ends the program.                                       *)

\* what the functions given to AsyncResult.compose do: return a plain
\* value, a Result, a promise, the caller's AsyncResult, or throw
AsyncComposeFns ==
    {[kind |-> "inc"], [kind |-> "incOk"], [kind |-> "const", v |-> Err(E1)],
     [kind |-> "const", v |-> Promise("fulfilled", Num(1))],
     [kind |-> "const", v |-> AsyncRef(1)], [kind |-> "throw", v |-> E2]}

AsyncComposeLists == UNION {[1..n -> AsyncComposeFns] : n \in 1..MaxFns}

\* the TypeError of calling a method the value has not
NotAFunction == NewError("TypeError", 0)

\* for (const fn of restFns) result = result.then_(fn), from fns[i] on, with
\* h the heap so far and c the completion of the statements before.  then_
\* is the method of what result is: of an AsyncResult, which makes a new
\* AsyncResult; of a Result; and of anything else undefined, so that the
\* call throws a TypeError
RECURSIVE AsyncResult_compose_loop(_, _, _, _)
AsyncResult_compose_loop(h, fns, i, c) ==
    IF c.t = "throw" \/ i > Len(fns)
      THEN [c EXCEPT !.eff = [heap |-> h]]
      ELSE CASE c.v.k = "asyncresult" ->
                  AsyncResult_compose_loop(
                    Append(h, [Blank EXCEPT !.op = "then_", !.recv = c.v.ref,
                                            !.arg = fns[i]]),
                    fns, i + 1, Return(AsyncRef(Len(h) + 1), c.calls))
             [] isResult(c.v) ->
                  AsyncResult_compose_loop(h, fns, i + 1,
                                           Then(c.calls, then_(c.v, fns[i], NoCb)))
             [] OTHER ->
                  AsyncResult_compose_loop(h, fns, i + 1, Throw(NotAFunction, c.calls))

\* a compose that starts from AsyncResult(v) and gives every function to
\* then_
AsyncResult_compose_threaded(h, fns, v) ==
    AsyncResult_compose_loop(
      Append(h, [Blank EXCEPT !.op = "AsyncResult", !.arg = v]),
      fns, 1, Return(AsyncRef(Len(h) + 1), <<>>))

\* the function AsyncResult.compose(...fns) returns, called with v
AsyncResult_compose(h, fns, v) ==
    AsyncResult_compose_loop(h, fns, 2, CallUser("fn", fns[1], <<v>>))

InitCompose ==
    /\ variant \in Variants
    /\ \E a \in Sources : heap = <<[Blank EXCEPT !.op = "AsyncResult", !.arg = a]>>
    /\ steps = 0
    /\ pc = "async"
    /\ cur = Idle /\ last = NoCall
    /\ prog = Idle /\ gen = Idle /\ done = FALSE /\ returnResult = Idle
    /\ raised = Undefined

\* the call, its completion c, and the promises it made
RecordCompose(call, c) ==
    /\ last' = [call EXCEPT !.out = [c EXCEPT !.eff = NoEff]]
    /\ heap' = Reacted(c.eff.heap)
    /\ steps' = steps + 1
    /\ pc' = IF c.t = "throw" THEN "raised" ELSE pc
    /\ raised' = IF c.t = "throw" THEN c.v ELSE raised
    /\ UNCHANGED <<variant, cur, prog, gen, done, returnResult>>

Call_compose ==
    /\ pc = "async" /\ steps = 0
    /\ \E fns \in AsyncComposeLists, v \in {Num(0), Num(1)} :
         RecordCompose([op |-> "AsyncResult.compose", fns |-> fns, v |-> v,
                        out |-> Idle],
                       AsyncResult_compose(heap, fns, v))

\* the reaction of a then_ made by the composed function to the settlement
\* of its receiver: the function it was given is called
ComposedReacts ==
    \E i \in 1..Len(heap) :
      /\ Pending(i) /\ heap[i].op = "then_"
      /\ heap[heap[i].recv].st # "pending"
      /\ heap[i].arg.kind = "const" => AwaitReady(heap, heap[i].arg.v)
      /\ heap' = Reacted([heap EXCEPT ![i] =
                            Settled(@, Reaction(heap, @, @.arg), @.arg)])
      /\ UNCHANGED Rest

NextCompose == Call_compose \/ SourceSettles \/ ComposedReacts

SpecCompose == InitCompose /\ [][NextCompose]_vars

------------------------------------------------------------------------------
(* Results a caller keeps.  heap[i] is the i-th _Result object the caller  *)
(* has: the two it constructed and, after them, every Result a call        *)
(* returned to it.  The caller calls the combinators on the Results it     *)
(* has, in any order, and Result.run with a generator that yields them.    *)

\* the Result objects the caller has after a call that completed as c: the
\* library makes the Result it returns, or returns one the caller has, and
\* writes to no object
Holding_overwriting(h, c) ==
    IF c.t = "return" /\ isResult(c.v) THEN [h EXCEPT ![1] = c.v] ELSE h

Holding(h, c) ==
    IF c.t = "return" /\ isResult(c.v) THEN Append(h, c.v) ELSE h

\* what the callbacks of the caller do
HeldCallbacks ==
    {[kind |-> "inc"], [kind |-> "const", v |-> Err(E1)], [kind |-> "throw", v |-> E2]}

InitHeld ==
    /\ variant \in Variants
    /\ \E a \in Results, b \in {Ok(Num(1)), Err(E1)} : heap = <<a, b>>
    /\ steps = 0
    /\ pc = "held"
    /\ cur = Idle /\ last = NoCall
    /\ prog = Idle /\ gen = Idle /\ done = FALSE /\ returnResult = Idle
    /\ raised = Undefined

CanCallHeld == pc = "held" /\ steps < MaxSteps

\* a call on heap[i], or on the list is of Results, that completed as c
RecordHeld(op, i, c) ==
    /\ last' = [op |-> op, recv |-> i, t |-> c.t]
    /\ heap' = Holding(heap, c)
    /\ steps' = steps + 1
    /\ UNCHANGED <<variant, cur, runVars>>

Held_valueOrFallback ==
    /\ CanCallHeld
    /\ \E i \in 1..Len(heap), cb \in HeldCallbacks :
         RecordHeld("valueOrFallback", i, valueOrFallback(heap[i], cb))

Held_then_ ==
    /\ CanCallHeld
    /\ \E i \in 1..Len(heap), okCb \in HeldCallbacks, errCb \in {NoCb, [kind |-> "inc"]} :
         RecordHeld("then_", i, then_(heap[i], okCb, errCb))

Held_catch_ ==
    /\ CanCallHeld
    /\ \E i \in 1..Len(heap), cb \in HeldCallbacks :
         RecordHeld("catch_", i, catch_(heap[i], cb))

Held_catchKnown ==
    /\ CanCallHeld /\ variant = "checked"
    /\ \E i \in 1..Len(heap), cb \in HeldCallbacks :
         RecordHeld("catchKnown", i, Checked_catchKnown(heap[i], cb))

Held_catchKnownInstanceOf ==
    /\ CanCallHeld /\ variant = "checked"
    /\ \E i \in 1..Len(heap), type \in ErrorClasses, cb \in HeldCallbacks :
         RecordHeld("catchKnownInstanceOf", i,
                    Checked_catchKnownInstanceOf(heap[i], type, cb))

Held_finally_ ==
    /\ CanCallHeld
    /\ \E i \in 1..Len(heap), cb \in HeldCallbacks :
         RecordHeld("finally_", i, finally_(heap[i], cb))

Held_thenChain ==
    /\ CanCallHeld /\ variant = "simple"
    /\ \E i \in 1..Len(heap), cb1 \in HeldCallbacks, cb2 \in HeldCallbacks :
         RecordHeld("thenChain", i, thenChain(heap[i], <<cb1, cb2>>))

Held_all ==
    /\ CanCallHeld
    /\ \E i \in 1..Len(heap), j \in 1..Len(heap) :
         RecordHeld("all", i, Return(Result_all(<<heap[i], heap[j]>>), <<>>))

Held_any ==
    /\ CanCallHeld
    /\ \E i \in 1..Len(heap), j \in 1..Len(heap) :
         RecordHeld("any", i, Return(Result_any(<<heap[i], heap[j]>>), <<>>))

\* Result.run is called with a generator that yields two of the Results
\* and returns the sum of their values
Held_run ==
    /\ CanCallHeld
    /\ \E i \in 1..Len(heap), j \in 1..Len(heap) :
         /\ prog' = [wrap |-> "finally", catchVal |-> Undefined,
                     stmts |-> <<[s |-> "yield*", r |-> heap[i]],
                                 [s |-> "yield*", r |-> heap[j]],
                                 [s |-> "return f", f |-> [kind |-> "add"]]>>]
         /\ last' = [op |-> "run", recv |-> i, t |-> "return"]
    /\ gen' = NewGen /\ done' = FALSE /\ returnResult' = Ok(Undefined)
    /\ pc' = "loop"
    /\ UNCHANGED <<variant, cur, steps, raised, heap>>

\* run has returned: the caller has its Result
Held_runReturned ==
    /\ pc = "returned"
    /\ heap' = Holding(heap, Return(returnResult, <<>>))
    /\ steps' = steps + 1
    /\ pc' = "held"
    /\ prog' = Idle /\ gen' = Idle /\ done' = FALSE /\ returnResult' = Idle
    /\ UNCHANGED <<variant, cur, last, raised>>

NextHeld ==
    \/ Held_valueOrFallback \/ Held_then_ \/ Held_catch_ \/ Held_catchKnown
    \/ Held_catchKnownInstanceOf \/ Held_finally_ \/ Held_thenChain
    \/ Held_all \/ Held_any \/ Held_run \/ RunLoop \/ RunReturn
    \/ Held_runReturned

SpecHeld == InitHeld /\ [][NextHeld]_vars

------------------------------------------------------------------------------
(* A program that uses the combinators of both Result and AsyncResult *)

InitCombinators == InitSync \/ InitAsync

NextCombinators == NextSync \/ NextAsync

SpecCombinators == InitCombinators /\ [][NextCombinators]_vars

------------------------------------------------------------------------------
(* Claims about the synchronous combinators (SpecSync) *)

Called == last.op # "none"

\* the user callback the last call invoked first, and what it was given
InvokedCb == last[last.out.calls[1].role]

\* C1: in the checked variant, when the callback that then_, catch_ or
\* finally_ invokes throws v, the call does not raise: it returns an Err
\* whose holder is Unchecked with payload v, whatever the receiver was.
C1_ThrowBecomesUncheckedErr ==
    (/\ Called
     /\ variant = "checked"
     /\ last.op \in {"then_", "catch_", "finally_"}
     /\ Len(last.out.calls) > 0
     /\ InvokedCb.kind = "throw")
    => /\ last.out.t = "return"
       /\ last.out.v = ErrUnchecked(InvokedCb.v)
       /\ last.out.v.data.value.type = "UNCHECKED_ERROR"
       /\ cur = last.out.v

C1_Witness ==
    /\ Called
    /\ variant = "checked"
    /\ last.op = "finally_"
    /\ last.recv = Checked_Err(E1)
    /\ last.cb = [kind |-> "throw", v |-> Num(2)]
    /\ Len(last.out.calls) = 1

\* C2: an Err receiver's then_ without an error callback invokes nothing
\* and returns a result with the receiver's tag and failure payload; an Ok
\* receiver's catch_ invokes nothing and returns a result equal to the
\* receiver.  Both variants.
C2_ShortCircuit ==
    /\ (Called /\ last.op = "then_" /\ ~last.recv.data.isOk /\ last.errCb = NoCb)
         => /\ last.out.t = "return"
            /\ last.out.calls = <<>>
            /\ isResult(last.out.v)
            /\ last.out.v.data.isOk = FALSE
            /\ last.out.v.data.value = last.recv.data.value
    /\ (Called /\ last.op = "catch_" /\ last.recv.data.isOk)
         => /\ last.out.t = "return"
            /\ last.out.calls = <<>>
            /\ last.out.v = last.recv

C2_Witness ==
    /\ Called
    /\ last.op = "catch_"
    /\ last.recv = Ok(Num(1))
    /\ last.cb.kind = "throw"
    /\ steps = 2

\* the callback of the last call was called once, with x
CalledBackWith(x) == last.out.calls = <<[role |-> "cb", args |-> <<x>>]>>

\* the last call called nothing and returned its receiver: the same tag, the
\* same holder (marker and payload)
PassedThrough ==
    /\ last.out.t = "return"
    /\ last.out.calls = <<>>
    /\ last.out.v = last.recv
    /\ cur = last.recv

\* the receiver of the last call is an Err whose holder is Checked
RecvChecked ==
    ~last.recv.data.isOk /\ last.recv.data.value.type = "CHECKED_ERROR"

\* C12: in the checked variant catchKnown calls its callback only for an Err
\* receiver with a Checked holder, and gives it the wrapped error;
\* catchKnownInstanceOf only when moreover that error is an instance of the
\* class given; for every other receiver (Ok, Unchecked holder whatever its
\* payload, Checked holder of another class) the callback is not called and
\* the result has the receiver's tag, marker and payload.
C12_NarrowedRecovery ==
    /\ (pc = "sync" /\ Called /\ last.op = "catchKnown")
         => IF RecvChecked
              THEN CalledBackWith(last.recv.data.value.error)
              ELSE PassedThrough
    /\ (pc = "sync" /\ Called /\ last.op = "catchKnownInstanceOf")
         => IF RecvChecked /\ InstanceOf(last.recv.data.value.error, last.type)
              THEN CalledBackWith(last.recv.data.value.error)
              ELSE PassedThrough

C12_Witness ==
    /\ pc = "sync"
    /\ Called
    /\ last.op = "catchKnownInstanceOf"
    /\ last.type = "CustomError"
    /\ last.recv = ErrUnchecked(E2)
    /\ last.cb.kind = "inc"
    /\ last.out.calls = <<>>
    /\ cur = ErrUnchecked(E2)

\* C13: finally_ on a Result of either variant calls cb exactly once and with
\* no argument, for an Ok as for an Err receiver; when cb returns an Err
\* Result that Err is the outcome, and when it returns anything else
\* (undefined, a plain value, an Ok Result, a promise) the outcome is equal
\* to the receiver.
C13_FinallyKeepsOrSupersedes ==
    (pc = "sync" /\ Called /\ last.op = "finally_")
    => /\ last.out.calls = <<[role |-> "cb", args |-> <<>>]>>
       /\ last.cb.kind = "const"
            => /\ last.out.t = "return"
               /\ last.out.v = IF isResult(last.cb.v) /\ ~last.cb.v.data.isOk
                                 THEN last.cb.v
                                 ELSE last.recv
               /\ cur = last.out.v

C13_Witness ==
    /\ pc = "sync"
    /\ Called
    /\ variant = "simple"
    /\ last.op = "finally_"
    /\ last.recv = Simple_Err(E1)
    /\ last.cb = [kind |-> "const", v |-> Ok(Num(1))]
    /\ cur = Simple_Err(E1)
    /\ steps = 2

\* what f returns for x, computed apart from any combinator
Applied(f, x) == CallUser("f", f, <<x>>).v

\* C3: for a callback f that does not throw, Ok(x).then_(f) is Ok(f(x))
\* when f(x) is a plain value and f(x) itself when f(x) is a Result (Ok or
\* Err), and f is invoked exactly once, with x.
C3_MapFlatMapLaw ==
    (Called /\ last.op = "then_" /\ last.recv.data.isOk /\ last.okCb.kind # "throw")
    => /\ last.out.t = "return"
       /\ last.out.calls = <<[role |-> "okCb", args |-> <<last.recv.data.value>>]>>
       /\ last.out.v = IF isResult(Applied(last.okCb, last.recv.data.value))
                         THEN Applied(last.okCb, last.recv.data.value)
                         ELSE Ok(Applied(last.okCb, last.recv.data.value))

C3_Witness ==
    /\ Called
    /\ last.op = "then_"
    /\ last.recv = Ok(Num(1))
    /\ last.okCb.kind = "const"
    /\ last.okCb.v = Err(E1)
    /\ last.out.v = Err(E1)

------------------------------------------------------------------------------
(* Claims about Result.all, Result.any and Result.compose (SpecStatic) *)

\* the positions of the Ok members and of the Err members of the last call
OkAt == {j \in 1..Len(last.results) : last.results[j].data.isOk}
ErrAt == {j \in 1..Len(last.results) : ~last.results[j].data.isOk}

\* C14: Result.all returns Ok of the list of the members' values in input
\* order if and only if every member is Ok (Ok of the empty list for no
\* member); otherwise it returns a result equal to the Err member of lowest
\* index, marker and payload unchanged, whatever the members after it are.
C14_AllFirstErrOrValues ==
    (pc = "static" /\ Called /\ last.op = "all")
    => /\ last.out.t = "return"
       /\ last.out.v.data.isOk <=> ErrAt = {}
       /\ ErrAt = {}
            => last.out.v =
                 Ok(Array([j \in 1..Len(last.results) |-> last.results[j].data.value]))
       /\ ErrAt # {} => last.out.v = last.results[Lowest(ErrAt)]

C14_Witness ==
    /\ pc = "static"
    /\ variant = "checked"
    /\ Called
    /\ last.op = "all"
    /\ last.results = <<Ok(Num(1)), ErrUnchecked(E1), Checked_Err(E2)>>
    /\ cur = ErrUnchecked(E1)

\* the AggregateError an Err result r carries
AggregateOf(r) ==
    IF variant = "checked" THEN r.data.value.error ELSE r.data.value

\* C15: Result.any returns a result equal to the Ok member of lowest index
\* when a member is Ok; when none is, it returns an Err (checked, in the
\* checked variant) of one AggregateError whose errors has one entry per
\* member, in input order: the member's error holder with its marker in the
\* checked variant, the member's error in the simple variant.
C15_AnyFirstOkOrAggregate ==
    (pc = "static" /\ Called /\ last.op = "any")
    => /\ last.out.t = "return"
       /\ OkAt # {} => last.out.v = last.results[Lowest(OkAt)]
       /\ OkAt = {}
            => /\ ~last.out.v.data.isOk
               /\ variant = "checked" => last.out.v.data.value.type = "CHECKED_ERROR"
               /\ AggregateOf(last.out.v).cls = "AggregateError"
               /\ AggregateOf(last.out.v).errors =
                    [j \in 1..Len(last.results) |-> last.results[j].data.value]

C15_Witness ==
    /\ pc = "static"
    /\ variant = "checked"
    /\ Called
    /\ last.op = "any"
    /\ last.results = <<Checked_Err(E1), ErrUnchecked(E2)>>
    /\ AggregateOf(cur).errors =
         <<makeCheckedErrorHolder(E1), makeUncheckedErrorHolder(E2)>>

\* result.then_(f) after the completion c, which a throw ends
ThenAfter(c, f) ==
    IF c.t = "throw" THEN c ELSE Then(c.calls, then_(c.v, f, NoCb))

\* Ok(x).then_(fns[1]). ... .then_(fns[n])
RECURSIVE Threaded(_, _, _)
Threaded(fns, n, x) ==
    IF n = 0 THEN Return(Ok(x), <<>>) ELSE ThenAfter(Threaded(fns, n - 1, x), fns[n])

\* what the functions called were given, in the order of the calls
ArgsOf(calls) == [i \in 1..Len(calls) |-> calls[i].args]

\* the completions c and d are the same outcome after the same calls
SameOutcome(c, d) ==
    /\ c.t = d.t
    /\ c.v = d.v
    /\ ArgsOf(c.calls) = ArgsOf(d.calls)

ComposeCalled == pc = "static" /\ Called /\ last.op = "compose"

\* C16 as stated: for every input x the function compose(f0, ..., fn)
\* returns produces the outcome of Ok(x).then_(f0). ... .then_(fn), the
\* functions after the first Err not called, also when a function, f0
\* included, throws.
C16_ComposeEqualsThreading ==
    ComposeCalled
    => SameOutcome(last.out, Threaded(last.fns, Len(last.fns), last.v))

\* C16, amended: compose(f0, ..., fn) applied to x is f0(x).then_(f1). ...
\* .then_(fn).  It produces the outcome of Ok(x).then_(f0). ... .then_(fn),
\* the functions after the first Err not called, whenever f0 does not throw;
\* when f0 throws e the call raises e to its caller in both variants and
\* calls no other function.
C16_ComposeCallsFirstDirectly ==
    ComposeCalled
    => IF last.fns[1].kind = "throw"
         THEN /\ last.out.t = "throw"
              /\ last.out.v = last.fns[1].v
              /\ ArgsOf(last.out.calls) = <<(<<last.v>>)>>
         ELSE SameOutcome(last.out, Threaded(last.fns, Len(last.fns), last.v))

C16_Witness ==
    /\ ComposeCalled
    /\ variant = "checked"
    /\ last.fns = <<[kind |-> "throw", v |-> E2], [kind |-> "incOk"]>>
    /\ last.out.t = "throw"
    /\ last.out.v = E2
    /\ Threaded(last.fns, 2, last.v).v = ErrUnchecked(E2)

ChainCalled == pc = "static" /\ Called /\ last.op = "thenChain"

\* what the k-th callback of the chain did with the arguments it was given
ChainStep(k) == CallUser("cb", last.cbs[k], last.out.calls[k].args)

\* the array the k-th callback called was given as its history, as it is
\* when thenChain has returned
HistoryOf(k) == last.out.eff.arrays[last.out.calls[k].args[2].id]

\* C23: thenChain(cb1, ..., cbN) on Ok(x0) calls the callbacks in order.
\* Callback k is given the unwrapped result of callback k-1 (x0 for k = 1)
\* and a history of length k-1, the arguments given to callbacks 1..k-1 in
\* order, which the later steps do not alter.  Once a callback returned an
\* Err, and when the receiver is an Err, no further callback is called and
\* that Err is the result; with no callbacks the result equals the
\* receiver.  (What a callback throws is raised to the caller.)
C23_ThenChainHistory ==
    ChainCalled =>
      /\ Len(last.out.calls) <= Len(last.cbs)
      /\ \A k \in 1..Len(last.out.calls) :
           /\ k > 1 => /\ ChainStep(k - 1).t = "return"
                       /\ Simple_toResult(ChainStep(k - 1).v).data.isOk
           /\ last.out.calls[k].args[1] =
                IF k = 1 THEN last.recv.data.value
                ELSE Simple_toResult(ChainStep(k - 1).v).data.value
           /\ HistoryOf(k) = [j \in 1..(k - 1) |-> last.out.calls[j].args[1]]
      /\ (~last.recv.data.isOk \/ last.cbs = <<>>) =>
           /\ last.out.calls = <<>>
           /\ last.out.t = "return" /\ last.out.v = last.recv
      /\ (last.recv.data.isOk /\ last.cbs # <<>>) =>
           /\ last.out.calls # <<>>
           /\ IF ChainStep(Len(last.out.calls)).t = "throw"
                THEN /\ last.out.t = "throw"
                     /\ last.out.v = ChainStep(Len(last.out.calls)).v
                ELSE /\ last.out.t = "return"
                     /\ last.out.v = Simple_toResult(ChainStep(Len(last.out.calls)).v)
                     /\ Len(last.out.calls) < Len(last.cbs) => ~last.out.v.data.isOk

\* a chain of three callbacks on Ok(1) whose third callback returns an Err
\* after having been given the results of the first two and their arguments
C23_Witness ==
    /\ ChainCalled
    /\ last.recv = Ok(Num(1))
    /\ last.cbs = <<[kind |-> "inc"], [kind |-> "incOk"], [kind |-> "const", v |-> Err(E1)]>>
    /\ Len(last.out.calls) = 3
    /\ HistoryOf(3) = <<Num(1), Num(2)>>
    /\ last.out.v = Err(E1)

WrapCalled == pc = "static" /\ Called /\ last.op = "wrap"

\* C24: the function Result.wrap(fn) returns never throws.  Called with
\* args it calls fn once, with args, and returns Ok(fn(args)) when fn
\* returns, a Result fn returned wrapped like any other value, and
\* ErrUnchecked(e) when fn throws e.
C24_WrapNeverThrows ==
    WrapCalled =>
      /\ last.out.t = "return"
      /\ ArgsOf(last.out.calls) = <<last.args>>
      /\ isResult(last.out.v)
      /\ IF last.fn.kind = "throw"
           THEN /\ ~last.out.v.data.isOk
                /\ last.out.v.data.value = makeUncheckedErrorHolder(last.fn.v)
           ELSE /\ last.out.v.data.isOk
                /\ last.out.v.data.value = Applied(last.fn, IF last.args = <<>> THEN Undefined ELSE last.args[1])

\* fn throws a Result
C24_Witness ==
    /\ WrapCalled
    /\ last.fn = [kind |-> "throw", v |-> Ok(Num(0))]
    /\ last.out.t = "return"
    /\ last.out.v = ErrUnchecked(Ok(Num(0)))

------------------------------------------------------------------------------
(* Claims about Result.run (SpecRun) *)

Running == pc \in {"loop", "returned", "raised"}

\* the j-th statement the generator executed
Executed(j) == prog.stmts[gen.executed[j]]

YieldedErr(j) == Executed(j).s = "yield*" /\ ~Executed(j).r.data.isOk

\* the generator's own code threw after at least one successful yield
ThrewAfterYield ==
    /\ Len(gen.executed) > 1
    /\ Executed(Len(gen.executed)).s = "throw"
    /\ Executed(Len(gen.executed) - 1).s = "yield*"
    /\ Executed(Len(gen.executed) - 1).r.data.isOk

ThrownByBody == Executed(Len(gen.executed)).e

\* C8: when the generator yields an Err F at a yield* inside a try/finally
\* or try/catch, run returns a result equal to F, the finally block has run,
\* the catch block has not, no later statement is executed and the generator
\* is not resumed with next() again.  Both variants.
C8_RunShortCircuitWithCleanup ==
    (Running /\ prog.wrap \in {"catch", "finally"})
    => \A j \in 1..Len(gen.executed) :
         YieldedErr(j)
         => /\ j = Len(gen.executed)
            /\ gen.at = gen.executed[j]
            /\ gen.st = "done"
            /\ gen.nexts = j
            /\ gen.returns = 1
            /\ gen.catchRan = 0
            /\ (prog.wrap = "finally" => gen.finallyRan = 1)
            /\ done
            /\ pc # "raised"
            /\ isResult(returnResult)
            /\ returnResult.data = Executed(j).r.data

C8_Witness ==
    /\ pc = "returned"
    /\ prog.wrap = "finally"
    /\ Len(prog.stmts) = 3
    /\ Len(gen.executed) = 2
    /\ YieldedErr(2)
    /\ gen.finallyRan = 1

\* C9 as stated: in both variants, when the generator body throws e after a
\* successful yield and does not catch it, run raises e to its caller.
C9_RunRaisesInBothVariants ==
    (Running /\ prog.wrap # "catch" /\ ThrewAfterYield)
    => pc = "raised" /\ raised = ThrownByBody

\* C9 as amended: in the simple variant, when the generator body throws e
\* after a successful yield and does not catch it, run raises e to its caller
\* and no Err result is made of e.
C9_SimpleRunRaises ==
    (Running /\ variant = "simple" /\ prog.wrap # "catch" /\ ThrewAfterYield)
    => /\ pc = "raised"
       /\ raised = ThrownByBody
       /\ returnResult.data.isOk

C9_Witness ==
    /\ pc = "raised"
    /\ variant = "simple"
    /\ prog.wrap = "finally"
    /\ ThrewAfterYield
    /\ gen.finallyRan = 1

\* C10: in the checked variant, when the generator body throws e after a
\* successful yield, run returns ErrUnchecked(e) and an enclosing finally
\* block has run; when a try/catch of the generator catches e, run returns
\* Ok of the generator's return value.
C10_CheckedRunCapturesThrow ==
    (Running /\ variant = "checked" /\ ThrewAfterYield)
    => /\ pc # "raised"
       /\ done
       /\ IF prog.wrap = "catch"
            THEN returnResult = Ok(prog.catchVal) /\ gen.catchRan = 1
            ELSE /\ returnResult = ErrUnchecked(ThrownByBody)
                 /\ (prog.wrap = "finally" => gen.finallyRan = 1)

C10_Witness ==
    /\ pc = "returned"
    /\ variant = "checked"
    /\ prog.wrap = "finally"
    /\ ThrewAfterYield
    /\ returnResult = ErrUnchecked(E2)

\* the generator function of run's documentation:
\*   a = yield* r1; b = yield* r2; return f(a, b)
\* return v and throw e being an f that returns v or throws e whatever it is
\* given
DocProgram ==
    /\ prog.wrap = "none" /\ Len(prog.stmts) = 3
    /\ prog.stmts[1].s = "yield*" /\ prog.stmts[2].s = "yield*"
    /\ prog.stmts[3].s # "yield*"

DocF ==
    CASE prog.stmts[3].s = "return f" -> prog.stmts[3].f
      [] prog.stmts[3].s = "return" -> [kind |-> "const", v |-> prog.stmts[3].v]
      [] prog.stmts[3].s = "throw" -> [kind |-> "throw", v |-> prog.stmts[3].e]

\* r1.then_((a) => r2.then_((b) => f(a, b)))
Nested(r1, r2, f) == then_(r1, [kind |-> "nested", r2 |-> r2, f |-> f], NoCb)

\* Result.all([r1, r2]).then_(([a, b]) => f(a, b))
ViaAll(r1, r2, f) == then_(Result_all(<<r1, r2>>), [kind |-> "spread", f |-> f], NoCb)

\* the call of run ended as the completion c
RunEndedAs(c) ==
    IF c.t = "throw"
      THEN pc = "raised" /\ raised = c.v
      ELSE pc = "returned" /\ returnResult = c.v

\* C27: for all Results r1, r2 and every f the three formulations of run's
\* documentation end the same way: Result.run over a generator that does
\* a = yield* r1; b = yield* r2; return f(a, b), the nested
\* r1.then_(a => r2.then_(b => f(a, b))), and
\* Result.all([r1, r2]).then_(([a, b]) => f(a, b)).  Each yield* evaluates to
\* the value of the Ok it was given, and when r1 or r2 is an Err the first
\* of them is the result.
C27_RunNestedAllAgree ==
    (pc \in {"returned", "raised"} /\ DocProgram) =>
      /\ RunEndedAs(Nested(prog.stmts[1].r, prog.stmts[2].r, DocF))
      /\ RunEndedAs(ViaAll(prog.stmts[1].r, prog.stmts[2].r, DocF))
      /\ \A j \in 1..Len(gen.received) :
           /\ prog.stmts[j].r.data.isOk
           /\ gen.received[j] = prog.stmts[j].r.data.value
      /\ ~prog.stmts[1].r.data.isOk =>
           pc = "returned" /\ returnResult = prog.stmts[1].r
      /\ (prog.stmts[1].r.data.isOk /\ ~prog.stmts[2].r.data.isOk) =>
           pc = "returned" /\ returnResult = prog.stmts[2].r

\* a = yield* Ok(1); b = yield* Ok(2); return a + b
C27_Witness ==
    /\ pc = "returned" /\ DocProgram
    /\ prog.stmts[1].r = Ok(Num(1)) /\ prog.stmts[2].r = Ok(Num(2))
    /\ prog.stmts[3].s = "return f"
    /\ gen.received = <<Num(1), Num(2)>>
    /\ returnResult = Ok(Num(0))
    /\ ViaAll(prog.stmts[1].r, prog.stmts[2].r, DocF).v = Ok(Num(0))

\* the last statement the generator executed
LastExecuted == Executed(Len(gen.executed))

\* the generator's last statement returned an Err: return Err(e)
ReturnedErr ==
    /\ Len(gen.executed) > 0
    /\ LastExecuted.s = "return"
    /\ isResult(LastExecuted.v) /\ ~LastExecuted.v.data.isOk

\* at the head of an iteration a result that is not done is Ok
HeadOfLoopIsOk == (pc = "loop" /\ ~done) => returnResult.data.isOk

\* an iteration calls gen.next once, and nothing else calls it
OneNextPerIteration ==
    IF pc = "loop" /\ ~done THEN gen'.nexts = gen.nexts + 1 ELSE gen' = gen

\* C30, as claimed: Result.run terminates when the generator completes or
\* yields an Err after finitely many steps.  At the head of every iteration
\* done = false implies that the running result is Ok, each iteration calls
\* gen.next exactly once, so that the loop makes at most one iteration for
\* each statement of the generator and one more, and gen.return is called
\* at most once and only after a yielded Err.
C30_ReturnOnlyAfterYieldedErr ==
    /\ [](Running => HeadOfLoopIsOk)
    /\ [][Running => OneNextPerIteration]_vars
    /\ [](Running =>
            /\ gen.returns <= 1
            /\ gen.returns = 1 =>
                 Len(gen.executed) > 0 /\ YieldedErr(Len(gen.executed)))
    /\ [](Running => gen.nexts <= Len(prog.stmts) + 1)

\* C30, amended: the same, with gen.return called at most once and only
\* after gen.next produced an Err, which the generator either yielded or
\* returned; after a returned Err the generator is already done when
\* gen.return is called, and nothing of its body runs again.
C30_RunTerminates ==
    /\ [](Running => HeadOfLoopIsOk)
    /\ [][Running => OneNextPerIteration]_vars
    /\ [](Running =>
            /\ gen.returns <= 1
            /\ gen.returns = 1 =>
                 /\ Len(gen.executed) > 0
                 /\ YieldedErr(Len(gen.executed)) \/ ReturnedErr
                 /\ done /\ gen.st = "done")
    /\ [](Running /\ Len(gen.executed) > 0
                  /\ (YieldedErr(Len(gen.executed)) \/ ReturnedErr)
            => gen.returns = 1)
    /\ [](Running => gen.nexts <= Len(prog.stmts) + 1)

\* run returned the Err the generator returned, having called gen.return
\* after the generator was done
C30_Witness ==
    /\ pc = "returned" /\ ReturnedErr
    /\ gen.nexts = 2 /\ gen.returns = 1
    /\ returnResult = LastExecuted.v

------------------------------------------------------------------------------
(* Claims about AsyncResult (SpecAsync, SpecCombinators) *)

Promises == 1..Len(heap)

HasSettled(i) == heap[i].st # "pending"

\* the promise the call that made heap[i] was made on
Recv(i) == heap[heap[i].recv]

\* a callback of the call that made heap[i] ran and threw
CallbackThrew(i) == heap[i].calls # <<>> /\ heap[i].cb.kind = "throw"

\* a callback of the call that made heap[i] ran and returned a promise that
\* rejects
CallbackRejected(i) ==
    /\ heap[i].calls # <<>>
    /\ heap[i].cb.kind = "const"
    /\ heap[i].cb.v.k = "promise"
    /\ heap[i].cb.v.st = "rejected"

\* C4: in the checked variant the promise of every AsyncResult got from
\* AsyncResult(), then_, catch_, catchKnown, catchKnownInstanceOf, finally_,
\* all, any, allSettled, race or run never rejects and settles with a Result;
\* a rejected input promise, a callback that throws and a callback that
\* returns a rejected promise settle it as the unchecked Err of that value.
C4_CheckedNeverRejects ==
    (pc = "async" /\ variant = "checked")
    => \A i \in Promises :
         heap[i].ar
         => /\ heap[i].st # "rejected"
            /\ HasSettled(i) => isResult(heap[i].v)
            /\ (HasSettled(i) /\ heap[i].op = "AsyncResult" /\ heap[i].arg.st = "rejected")
                 => heap[i].v = ErrUnchecked(heap[i].arg.v)
            /\ (HasSettled(i) /\ heap[i].op \in Chaining /\ CallbackThrew(i))
                 => heap[i].v = ErrUnchecked(heap[i].cb.v)
            /\ (HasSettled(i) /\ heap[i].op \in Chaining /\ CallbackRejected(i))
                 => heap[i].v = ErrUnchecked(heap[i].cb.v.v)

C4_Witness ==
    /\ pc = "async"
    /\ variant = "checked"
    /\ Len(heap) = 3
    /\ heap[1].arg.st = "rejected"
    /\ heap[1].st = "fulfilled"
    /\ heap[3].op = "catch_"
    /\ heap[3].recv = 1
    /\ CallbackRejected(3)
    /\ heap[3].v = ErrUnchecked(Num(2))

\* C5: in the simple variant valueOrFallback(onFailure, onRejection) calls
\* onFailure once with the error and not onRejection when the receiver
\* settled as Err, onRejection once with the reason and not onFailure when
\* the receiver's promise rejected (also with an Err as the reason), and
\* neither when it settled as Ok.
C5_ThreeChannels ==
    (pc = "async" /\ variant = "simple")
    => \A i \in Promises :
         (heap[i].op = "valueOrFallback" /\ heap[i].rejectionCb /\ HasSettled(i))
         => heap[i].calls =
              IF Recv(i).st = "rejected"
                THEN <<[role |-> "rejectionCb", args |-> <<Recv(i).v>>]>>
                ELSE IF Recv(i).v.data.isOk
                       THEN <<>>
                       ELSE <<[role |-> "errCb", args |-> <<Recv(i).v.data.value>>]>>

C5_Witness ==
    /\ pc = "async"
    /\ variant = "simple"
    /\ Len(heap) = 3
    /\ heap[3].op = "valueOrFallback"
    /\ heap[3].rejectionCb
    /\ Recv(3).st = "rejected"
    /\ Recv(3).v = Simple_Err(E1)
    /\ heap[3].calls = <<[role |-> "rejectionCb", args |-> <<Simple_Err(E1)>>]>>

\* C6: in the simple variant, when the receiver's promise rejected with r and
\* no rejection callback is given, then_, catch_ and catchInstanceOf call
\* none of their callbacks and give an AsyncResult rejected with r, and
\* valueOrFallback gives a promise rejected with r.
C6_RejectionPropagates ==
    (pc = "async" /\ variant = "simple")
    => \A i \in Promises :
         (/\ heap[i].op \in {"then_", "catch_", "catchInstanceOf", "valueOrFallback"}
          /\ ~heap[i].rejectionCb
          /\ HasSettled(i)
          /\ Recv(i).st = "rejected")
         => /\ heap[i].st = "rejected"
            /\ heap[i].v = Recv(i).v
            /\ heap[i].calls = <<>>
            /\ heap[i].ar = (heap[i].op # "valueOrFallback")

C6_Witness ==
    /\ pc = "async"
    /\ variant = "simple"
    /\ Len(heap) = 3
    /\ heap[3].op = "catchInstanceOf"
    /\ heap[3].type = "CustomError"
    /\ ~heap[3].rejectionCb
    /\ Recv(3).st = "rejected"
    /\ Recv(3).v = E2
    /\ heap[3].st = "rejected"

\* C7: in the simple variant a value v a callback throws never becomes an
\* Err: the synchronous then_, catch_ and finally_ raise v to their caller,
\* and the asynchronous then_ and catch_ give an AsyncResult rejected with v
\* and do not call the rejection callback given to the same call.
C7_SimpleThrowIsNoErr ==
    /\ (/\ pc = "sync"
        /\ variant = "simple"
        /\ Called
        /\ Len(last.out.calls) > 0
        /\ InvokedCb.kind = "throw")
       => /\ last.out.t = "throw"
          /\ last.out.v = InvokedCb.v
          /\ cur = last.recv
    /\ (pc = "async" /\ variant = "simple")
       => \A i \in Promises :
            (heap[i].op \in {"then_", "catch_"} /\ HasSettled(i) /\ CallbackThrew(i))
            => /\ heap[i].st = "rejected"
               /\ heap[i].v = heap[i].cb.v
               /\ Len(heap[i].calls) = 1
               /\ Recv(i).st = "fulfilled" => heap[i].calls[1].role # "rejectionCb"

C7_Witness ==
    /\ pc = "async"
    /\ variant = "simple"
    /\ Len(heap) = 3
    /\ heap[3].op = "then_"
    /\ heap[3].rejectionCb
    /\ Recv(3).st = "fulfilled"
    /\ CallbackThrew(3)
    /\ heap[3].calls[1].role = "okCb"
    /\ heap[3].st = "rejected"
    /\ heap[3].v = E2

\* the run that made heap[i] has settled at a yield*: the generator was
\* suspended there and had not returned
RunStopped(i) ==
    /\ heap[i].op = "run"
    /\ HasSettled(i)
    /\ heap[i].awaiting # Idle
    /\ ~heap[i].done

\* the generator g of program p ended at the yield* it was suspended at: its
\* cleanup ran once, no later statement began, and every next() started a
\* yield* (none came after the last one)
CleanedUpAtYield(p, g) ==
    /\ g.st = "done"
    /\ g.finallyRan = (IF p.wrap = "finally" THEN 1 ELSE 0)
    /\ g.catchRan = 0
    /\ g.returns = 1
    /\ p.stmts[g.at].s = "yield*"
    /\ g.executed = [j \in 1..g.at |-> j]
    /\ g.nexts = g.at

\* the run e settled as s, what it was awaiting, settled: on the same channel
\* and with the same failure
SameFailure(e, s) ==
    /\ e.st = s.st
    /\ e.v = s.v
    /\ s.st = "fulfilled" => ~s.v.data.isOk
    /\ s.st = "rejected" => variant = "simple"

\* C11: AsyncResult.run stops at the first yielded Result or AsyncResult that
\* settles as Err or, in the simple variant, as a rejection: the run settles
\* with the same failure on the same channel (in the checked variant a
\* rejected source is the unchecked Err of its reason), the finally block of
\* the generator has run exactly once when the run has settled, the catch
\* block has not run and the generator got no next() after that yield*.
C11_AsyncRunStopsAtFirstFailure ==
    pc = "async"
    => \A i \in Promises :
         RunStopped(i)
         => /\ SameFailure(heap[i], toResultPromise(heap, heap[i].awaiting, <<>>))
            /\ CleanedUpAtYield(heap[i].prog, heap[i].gen)
            /\ (/\ variant = "checked"
                /\ heap[i].awaiting.k = "asyncresult"
                /\ heap[heap[i].awaiting.ref].arg.st = "rejected")
               => heap[i].v = ErrUnchecked(heap[heap[i].awaiting.ref].arg.v)

C11_Witness ==
    /\ pc = "async"
    /\ variant = "simple"
    /\ Len(heap) = 3
    /\ RunStopped(3)
    /\ heap[3].prog.wrap = "finally"
    /\ heap[3].awaiting = AsyncRef(2)
    /\ heap[1].st = "fulfilled"
    /\ heap[2].st = "rejected"
    /\ heap[3].st = "rejected"
    /\ heap[3].v = Num(2)
    /\ heap[3].gen.finallyRan = 1
    /\ heap[3].gen.nexts = 2

------------------------------------------------------------------------------
(* Claims about AsyncResult.all and AsyncResult.any (SpecAsync).  A member *)
(* is earlier in time than another when its reaction ran first: seen has   *)
(* the members in that order, which is the order they settled in, and the  *)
(* input order among the members that had settled when the call was made.  *)

\* the member of e, among those at the positions S, whose reaction ran first
FirstSeen(e, S) == e.seen[Lowest({n \in 1..Len(e.seen) : e.seen[n] \in S})]

\* the positions of the members of e that settled as Ok
SucceededAt(h, e) ==
    {j \in Positions(e) : Member(h, e, j).st = "fulfilled" /\ Member(h, e, j).v.data.isOk}

\* C17 as stated: in both variants, when every member of AsyncResult.all has
\* settled, none by rejection and one at least as Err, all has settled as
\* the Err of the failed member of lowest input index, marker kept, in
\* whatever order the members settled; when all members settled as Ok it
\* settles as Ok of their values in input order.
C17_AllLowestIndexErr ==
    pc = "async"
    => \A i \in Promises :
         (/\ heap[i].op = "all"
          /\ HasSettled(i)
          /\ AllSettled(heap, heap[i])
          /\ RejectedAt(heap, heap[i]) = {})
         => /\ heap[i].st = "fulfilled"
            /\ heap[i].v =
                 IF FailedAt(heap, heap[i]) # {}
                   THEN Member(heap, heap[i], Lowest(FailedAt(heap, heap[i]))).v
                   ELSE Ok(Array([j \in Positions(heap[i]) |->
                                    Member(heap, heap[i], j).v.data.value]))

\* C18: in the simple variant, when a member's promise has rejected,
\* AsyncResult.all can settle at once, whatever the other members do, and
\* once settled it is rejected with the reason of the rejection that was
\* first in time, also when members listed earlier or settled earlier are
\* Errs.
C18_AllRejectionFirst ==
    (pc = "async" /\ variant = "simple")
    => \A i \in Promises :
         (heap[i].op = "all" /\ RejectedAt(heap, heap[i]) # {})
         => IF HasSettled(i)
              THEN /\ heap[i].st = "rejected"
                   /\ heap[i].v =
                        Member(heap, heap[i],
                               FirstSeen(heap[i], RejectedAt(heap, heap[i]))).v
              ELSE CombinedReady(heap, heap[i])

C18_Witness ==
    /\ pc = "async"
    /\ variant = "simple"
    /\ Len(heap) = 3
    /\ heap[3].op = "all"
    /\ heap[3].members = <<1, 2>>
    /\ heap[3].seen = <<1, 2>>
    /\ heap[1].v = Simple_Err(E1)
    /\ heap[2].st = "rejected"
    /\ heap[3].st = "rejected"
    /\ heap[3].v = Num(2)

\* C19: in the checked variant AsyncResult.any settles as Ok with the value
\* of the member that was first in time to settle as Ok, whatever its
\* position in the list and however many members failed before it; it
\* settles as Err only when every member has settled as Err.
C19_AnyFirstOkInTime ==
    (pc = "async" /\ variant = "checked")
    => \A i \in Promises :
         (heap[i].op = "any" /\ HasSettled(i))
         => /\ heap[i].st = "fulfilled"
            /\ heap[i].v.data.isOk <=> SucceededAt(heap, heap[i]) # {}
            /\ heap[i].v.data.isOk
                 => heap[i].v =
                      Member(heap, heap[i],
                             FirstSeen(heap[i], SucceededAt(heap, heap[i]))).v
            /\ ~heap[i].v.data.isOk
                 => FailedAt(heap, heap[i]) = Positions(heap[i])

C19_Witness ==
    /\ pc = "async"
    /\ variant = "checked"
    /\ Len(heap) = 3
    /\ heap[3].op = "any"
    /\ heap[3].members = <<1, 2>>
    /\ heap[3].seen = <<2, 1>>
    /\ heap[1].v = Ok(Num(1))
    /\ heap[2].v = Ok(Num(2))
    /\ heap[3].v = Ok(Num(2))

\* AsyncResult.any has settled with every member a failure
AnyFailed(i) ==
    /\ heap[i].op = "any"
    /\ HasSettled(i)
    /\ heap[i].members # <<>>
    /\ FailedAt(heap, heap[i]) = Positions(heap[i])

\* C20 as stated: when every member of AsyncResult.any settled as a failure
\* the result is a checked Err of one AggregateError whose errors has every
\* member's error holder once, marker kept, in the order in which the
\* members settled.
C20_AnyErrorsInSettlementOrder ==
    (pc = "async" /\ variant = "checked")
    => \A i \in Promises :
         AnyFailed(i)
         => heap[i].v =
              Checked_Err(AggregateError([n \in 1..Len(heap[i].seen) |->
                  Member(heap, heap[i], heap[i].seen[n]).v.data.value]))

\* C20, amended: when every member of AsyncResult.any settled as a failure
\* the result is a checked Err of one AggregateError whose errors has every
\* member's error holder once, marker kept, in the input order of the
\* members, whatever the order in which they settled.
C20_AnyErrorsInInputOrder ==
    (pc = "async" /\ variant = "checked")
    => \A i \in Promises :
         AnyFailed(i)
         => /\ heap[i].st = "fulfilled"
            /\ heap[i].v.data.value.type = "CHECKED_ERROR"
            /\ heap[i].v.data.value.error =
                 AggregateError([j \in Positions(heap[i]) |->
                                   Member(heap, heap[i], j).v.data.value])

C20_Witness ==
    /\ pc = "async"
    /\ variant = "checked"
    /\ Len(heap) = 3
    /\ AnyFailed(3)
    /\ heap[3].members = <<1, 2>>
    /\ heap[3].seen = <<2, 1>>
    /\ heap[3].v.data.value.error.errors =
         <<makeCheckedErrorHolder(E1), makeUncheckedErrorHolder(Num(2))>>

------------------------------------------------------------------------------
(* Claims about AsyncResult.allSettled and AsyncResult.race (SpecCombining) *)

\* what allSettled reports of the member m
Describes(item, m) ==
    IF variant = "checked"
      THEN m.st = "fulfilled" /\ item = m.v
      ELSE CASE m.st = "rejected" ->
                  item = [k |-> "object", type |-> "rejection", value |-> m.v]
             [] m.st = "fulfilled" /\ m.v.data.isOk ->
                  item = [k |-> "object", type |-> "ok", value |-> m.v.data.value]
             [] m.st = "fulfilled" /\ ~m.v.data.isOk ->
                  item = [k |-> "object", type |-> "err", value |-> m.v.data.value]
             [] OTHER -> FALSE

\* C21: AsyncResult.allSettled never fails.  Whatever its members settled
\* as (Ok, Err or a rejection) and in whatever order, it settles only when
\* all of them have settled, as an Ok of a list with one entry per member in
\* input order, entry j describing member j: in the simple variant its type
\* (ok, err, rejection) with the value, error or reason, in the checked
\* variant the member's Result.
C21_AllSettledNeverFails ==
    \A i \in Promises :
      (pc = "async" /\ heap[i].op = "allSettled" /\ HasSettled(i)) =>
        /\ AllSettled(heap, heap[i])
        /\ heap[i].st = "fulfilled"
        /\ isResult(heap[i].v) /\ heap[i].v.data.isOk
        /\ heap[i].v.data.value.k = "array"
        /\ Len(heap[i].v.data.value.items) = Len(heap[i].members)
        /\ \A j \in Positions(heap[i]) :
             Describes(heap[i].v.data.value.items[j], Member(heap, heap[i], j))

\* an allSettled over a member that was rejected and a member that was not,
\* the second having settled first
C21_Witness ==
    \E i \in Promises :
      /\ pc = "async" /\ heap[i].op = "allSettled" /\ HasSettled(i)
      /\ Len(heap[i].members) = 2
      /\ heap[i].seen = <<2, 1>>
      /\ Member(heap, heap[i], 1).st = "rejected"
      /\ Member(heap, heap[i], 2).st = "fulfilled"

\* C22: AsyncResult.race settles exactly as the member that settled first in
\* time, in that member's channel: an Ok with the same value, an Err with
\* the same error or, in the simple variant, a rejection with the same
\* reason.  The members that settle later change nothing.
C22_RaceFirstInTime ==
    \A i \in Promises :
      (pc = "async" /\ heap[i].op = "race" /\ HasSettled(i)) =>
        /\ heap[i].seen # <<>>
        /\ heap[i].st = Member(heap, heap[i], heap[i].seen[1]).st
        /\ heap[i].v = Member(heap, heap[i], heap[i].seen[1]).v

\* a race whose second member was rejected first and whose first member
\* settled afterwards, as something else
C22_Witness ==
    \E i \in Promises :
      /\ pc = "async" /\ heap[i].op = "race" /\ HasSettled(i)
      /\ heap[i].seen = <<2, 1>>
      /\ heap[i].st = "rejected"
      /\ Member(heap, heap[i], 1).st = "fulfilled"

------------------------------------------------------------------------------
(* Claims about several continuations of one AsyncResult (SpecAttached) *)

\* what the receiver of the call i settled with: its value, error or reason
RecvPayload(i) == IF Recv(i).st = "fulfilled" THEN Recv(i).v.data.value ELSE Recv(i).v

\* the call i was given a callback for the way its receiver settled
Applicable(i) ==
    CASE heap[i].op = "finally_" -> TRUE
      [] Recv(i).st = "rejected" -> heap[i].rejectionCb
      [] ~Recv(i).v.data.isOk -> heap[i].errCb
      [] OTHER -> heap[i].op = "then_"

SettledAs(e, s) == e.st = s.st /\ e.v = s.v /\ e.calls = s.calls

\* the promises had the call that made heap[i] been the only one on its
\* receiver: those of the other calls on it never settle
Alone(i) ==
    [k \in 1..Len(heap) |->
       IF k # i /\ heap[k].recv = heap[i].recv
         THEN [heap[k] EXCEPT !.st = "pending", !.v = Undefined, !.calls = <<>>,
                              !.cb = NoCb]
         ELSE heap[k]]

\* C26: several continuations may be attached to one AsyncResult.  When
\* then_, catch_ or finally_ is called two or more times on it, before or
\* after it settles and whichever reacts first, the callback of each call
\* that applies is called exactly once, with the value or error the
\* AsyncResult settled with, and the AsyncResult each call produced settles
\* as it would had the call been the only one: what the callback of another
\* call returns or throws does not affect it.
C26_IndependentContinuations ==
    \A i \in Promises, j \in Promises :
      (/\ pc = "async" /\ i # j
       /\ heap[i].op \in {"then_", "catch_", "finally_"}
       /\ heap[j].op \in {"then_", "catch_", "finally_"}
       /\ heap[i].recv = heap[j].recv
       /\ HasSettled(i)) =>
        /\ Len(heap[i].calls) = IF Applicable(i) THEN 1 ELSE 0
        /\ Applicable(i) =>
             heap[i].calls[1].args =
               IF heap[i].op = "finally_" THEN <<>> ELSE <<RecvPayload(i)>>
        /\ SettledAs(heap[i],
                     Reaction(Alone(i), heap[i], heap[i].cb))

\* two calls of then_ on an AsyncResult that settled as Ok(1): the callback
\* of one threw, the callback of the other was called with 1 all the same
\* and its AsyncResult is Ok(2)
C26_Witness ==
    \E i \in Promises, j \in Promises :
      /\ pc = "async" /\ i < j
      /\ heap[i].op = "then_" /\ heap[j].op = "then_"
      /\ heap[i].recv = 1 /\ heap[j].recv = 1
      /\ HasSettled(i) /\ HasSettled(j)
      /\ Recv(i).v = Ok(Num(1))
      /\ heap[i].cb.kind = "throw"
      /\ heap[j].calls = <<[role |-> "okCb", args |-> <<Num(1)>>]>>
      /\ heap[j].st = "fulfilled" /\ heap[j].v = Ok(Num(2))

------------------------------------------------------------------------------
(* Claims about finally_ of the simple AsyncResult (SpecFinally) *)

\* what there is at the end of x, a value a callback returned: x itself, or
\* the settlement of the promise or AsyncResult x is
AtTheEndOf(x) ==
    CASE x.k = "promise" -> [st |-> x.st, v |-> x.v]
      [] x.k = "asyncresult" -> [st |-> heap[x.ref].st, v |-> heap[x.ref].v]
      [] OTHER -> [st |-> "fulfilled", v |-> x]

\* what a callback that did cb produced: "reject" with v when it threw v or
\* returned something that rejected with v, "err" with the Err it returned,
\* directly or through a promise or an AsyncResult, and "none" otherwise
Produced(cb) ==
    CASE cb.kind = "throw" -> [how |-> "reject", v |-> cb.v]
      [] cb.kind = "const" /\ AtTheEndOf(cb.v).st = "rejected" ->
            [how |-> "reject", v |-> AtTheEndOf(cb.v).v]
      [] cb.kind = "const" /\ isResult(AtTheEndOf(cb.v).v)
                           /\ ~AtTheEndOf(cb.v).v.data.isOk ->
            [how |-> "err", v |-> AtTheEndOf(cb.v).v]
      [] OTHER -> [how |-> "none", v |-> Undefined]

\* C28: finally_ of the simple AsyncResult covers the three channels.
\* Whether the receiver settled as Ok, as Err or by a rejection, cb is
\* called exactly once, with no arguments.  When cb produces no Err (a plain
\* value, an Ok, or a promise or AsyncResult of those) the result settles
\* exactly like the receiver, a rejection staying a rejection with the same
\* reason; when cb produces an Err, directly or through a promise or an
\* AsyncResult, the result settles as that Err even when the receiver was
\* rejected; when cb throws or rejects with v the result is rejected with v.
C28_FinallyThreeChannels ==
    \A i \in Promises :
      (/\ pc = "async" /\ variant = "simple"
       /\ heap[i].op = "finally_" /\ HasSettled(i)) =>
        /\ heap[i].calls = <<[role |-> "cb", args |-> <<>>]>>
        /\ Produced(heap[i].cb).how = "none" =>
             heap[i].st = Recv(i).st /\ heap[i].v = Recv(i).v
        /\ Produced(heap[i].cb).how = "err" =>
             heap[i].st = "fulfilled" /\ heap[i].v = Produced(heap[i].cb).v
        /\ Produced(heap[i].cb).how = "reject" =>
             heap[i].st = "rejected" /\ heap[i].v = Produced(heap[i].cb).v

\* the receiver was rejected and cb returned a promise of an Err
C28_Witness ==
    \E i \in Promises :
      /\ pc = "async" /\ variant = "simple"
      /\ heap[i].op = "finally_" /\ HasSettled(i)
      /\ Recv(i).st = "rejected"
      /\ heap[i].cb = [kind |-> "const", v |-> Promise("fulfilled", Err(E1))]
      /\ heap[i].st = "fulfilled" /\ heap[i].v = Err(E1)

------------------------------------------------------------------------------
(* Claims about AsyncResult.compose (SpecCompose) *)

\* how AsyncResult(x).then_(fns[i]).then_(fns[i+1])... settles, r being the
\* settlement of the AsyncResult before fns[i]
RECURSIVE ThenChainFrom(_, _, _)
ThenChainFrom(fns, i, r) ==
    IF i > Len(fns)
      THEN r
      ELSE ThenChainFrom(fns, i + 1,
                         IF variant = "simple"
                           THEN Simple_async_then_(heap, r, fns[i], NoCb, NoCb)
                           ELSE Checked_async_then_(heap, r, fns[i], NoCb))

ThenChainOf(fns, x) ==
    ThenChainFrom(fns, 1,
                  IF variant = "simple"
                    THEN Simple_AsyncResult(heap, x)
                    ELSE Checked_AsyncResult(heap, x))

\* how what the composed function returned settles
ComposedSettlement(v) ==
    CASE v.k = "asyncresult" -> [st |-> heap[v.ref].st, v |-> heap[v.ref].v]
      [] OTHER -> [st |-> toResultPromise(heap, v, <<>>).st,
                   v |-> toResultPromise(heap, v, <<>>).v]

\* C29: AsyncResult.compose(f0, ..., fn) composes the functions with then_.
\* For every input x and functions that return a plain value, a promise, a
\* Result or an AsyncResult, the call of the composed function on x does not
\* raise, and once every promise has settled what it returned has settled
\* to the same outcome as AsyncResult(x).then_(f0).then_(f1)...then_(fn).
C29_ComposeIsThenChain ==
    (last.op = "AsyncResult.compose"
       /\ \A j \in 1..Len(last.fns) : last.fns[j].kind # "throw") =>
      /\ last.out.t = "return"
      /\ (\A i \in 1..Len(heap) : heap[i].st # "pending") =>
           /\ ComposedSettlement(last.out.v).st = ThenChainOf(last.fns, last.v).st
           /\ ComposedSettlement(last.out.v).v = ThenChainOf(last.fns, last.v).v

------------------------------------------------------------------------------
(* Claims about the Results a caller keeps (SpecHeld) *)

==============================================================================
